---- MODULE Spec2Model ----
(***************************************************************************)
(* GoTo Device Location Manager: the Flask routes of app.py, the           *)
(* AuthService of app/services/auth_service.py and the GoToAPIService of   *)
(* app/services/goto_api_service.py.                                       *)
(*                                                                         *)
(* Spec         the web application: one action per route handler, acting  *)
(*              on the per-browser Flask session.                          *)
(* SpecService  the two service objects called directly, one action per    *)
(*              public method, with the arguments drawn from small sets.   *)
(* SpecLogin    the login routes next to the AuthService methods.          *)
(* SpecStartup  the __main__ block of app.py from process start, with the  *)
(*              environment drawn from small sets.                         *)
(* SpecSessions two browser sessions whose requests interleave.            *)
(***************************************************************************)
EXTENDS Integers, Sequences, FiniteSets, TLC

VARIABLES session, last, call, config, proc

vars == <<session, last, call, config, proc>>

(***************************************************************************)
(* Bounds.                                                                 *)
(***************************************************************************)
\* longest "items" list an upstream list response carries
MaxItems == 2

(***************************************************************************)
(* Python values, tagged by type so that any two can be compared.          *)
(***************************************************************************)
None == [t |-> "none"]

\* a required positional argument the call site does not supply
Missing == [t |-> "missing"]

\* a response body that is not JSON
InvalidJson == [t |-> "invalid"]

Str(s) == [t |-> "str", s |-> s]

IntV(n) == [t |-> "int", n |-> n]

BoolV(b) == [t |-> "bool", b |-> b]

List(l) == [t |-> "list", l |-> l]

Dict(d) == [t |-> "dict", d |-> d]

EmptyDict == [k \in {} |-> None]

\* bool(v)
Truthy(v) ==
    CASE v.t = "none" -> FALSE
      [] v.t = "str"  -> v.s /= ""
      [] v.t = "int"  -> v.n /= 0
      [] v.t = "bool" -> v.b
      [] v.t = "list" -> v.l /= <<>>
      [] v.t = "dict" -> DOMAIN v.d /= {}
      [] OTHER        -> TRUE

\* f"{v}": a str formats to itself, anything else to its repr
Fmt(v) ==
    CASE v.t = "str"  -> v.s
      [] v.t = "none" -> "None"
      [] v.t = "dict" -> "{...}"
      [] v.t = "list" -> "[...]"
      [] OTHER        -> "?"

\* isinstance(v, dict)
IsDict(v) == v.t = "dict"

\* k in d
HasKey(d, k) == k \in DOMAIN d

\* d.get(k, default)
GetOr(d, k, default) == IF k \in DOMAIN d THEN d[k] ELSE default

\* d.get(k)
Get(d, k) == GetOr(d, k, None)

\* d[k] = v
Put(d, k, v) == [x \in (DOMAIN d) \cup {k} |-> IF x = k THEN v ELSE d[x]]

\* d.pop(k, None)
Pop(d, k) == [x \in (DOMAIN d) \ {k} |-> d[x]]

\* a or b
Or(a, b) == IF Truthy(a) THEN a ELSE b

(***************************************************************************)
(* What a call gives back: a returned value or a raised exception, the     *)
(* HTTP exchanges it made and the log records it wrote.                    *)
(***************************************************************************)
Ret(v) == [tag |-> "ret", val |-> v, exc |-> "", cause |-> ""]

Raise(e, c) == [tag |-> "raise", val |-> None, exc |-> e, cause |-> c]

Outcome(o, n, l) == [out |-> o, net |-> n, log |-> l]

LogRec(level, msg, fields) == [level |-> level, msg |-> msg, fields |-> fields]

(***************************************************************************)
(* The upstream resource API: what it answers to one request.              *)
(***************************************************************************)
HttpResp(status, body) == [kind |-> "http", status |-> status, body |-> body]

\* requests.request raised (connection refused, timeout, ...)
TransportFailure == [kind |-> "exc", status |-> 0, body |-> None]

LocA == Dict([id |-> Str("locA"), name |-> Str("Loc A")])

LocB == Dict([id |-> Str("locB")])

Items == {LocA, LocB}

RECURSIVE SeqsUpTo(_, _)
SeqsUpTo(S, n) ==
    IF n = 0 THEN {<<>>}
    ELSE LET shorter == SeqsUpTo(S, n - 1)
         IN shorter \cup {Append(q, x) : q \in shorter, x \in S}

ItemLists == SeqsUpTo(Items, MaxItems)

\* the body {"items":[{"id":"1"}], "nextPageMarker":"abc"}
PagedBody == Dict([items |-> List(<<Dict([id |-> Str("1")])>>),
                   nextPageMarker |-> Str("abc")])

\* a device resource with its location
DeviceBody == Dict([id |-> Str("dev1"), location |-> Dict([id |-> Str("locA")])])

JsonBodies == {PagedBody, DeviceBody, Dict(EmptyDict)}

FailureStatuses == {401, 403, 500}

Failures == {HttpResp(st, Str("error")) : st \in FailureStatuses} \cup {TransportFailure}

\* what the upstream answers to one request
Upstream == {HttpResp(200, b) : b \in JsonBodies \cup {InvalidJson}} \cup Failures

\* what the upstream answers to a list-locations request
LocationsUpstream == {HttpResp(200, Dict([items |-> List(l)])) : l \in ItemLists} \cup Failures

(***************************************************************************)
(* GoToAPIService                                                          *)
(***************************************************************************)
base_url == "https://api.goto.com/voice-admin/v1"

\* method.upper()
Upper(method) ==
    CASE method \in {"get", "GET"}   -> "GET"
      [] method \in {"post", "POST"} -> "POST"
      [] OTHER                       -> method

Request(method, endpoint, access_token, params) ==
    [method   |-> Upper(method),
     url      |-> <<base_url>> \o endpoint,
     headers  |-> [Authorization |-> <<"Bearer", Fmt(access_token)>>,
                   ContentType   |-> "application/json"],
     params   |-> params,
     token    |-> access_token]

\* the mutant of make_authenticated_request that loses the page marker
make_authenticated_request_drops_marker(method, endpoint, access_token, params, upstream) ==
    IF access_token = Missing THEN Outcome(Raise("TypeError", ""), <<>>, <<>>)
    ELSE IF ~Truthy(access_token) THEN Outcome(Ret(None), <<>>, <<>>)
    ELSE LET sent == <<[req |-> Request(method, endpoint, access_token, params),
                        resp |-> upstream]>>
         IN IF upstream.kind = "http" /\ upstream.status = 200
                  /\ upstream.body /= InvalidJson
            THEN Outcome(Ret(IF IsDict(upstream.body)
                             THEN Dict(Pop(upstream.body.d, "nextPageMarker"))
                             ELSE upstream.body), sent, <<>>)
            ELSE Outcome(Ret(None), sent, <<>>)

\* the mutant of make_authenticated_request that logs every failure without its status
make_authenticated_request_logs_no_status(method, endpoint, access_token, params, upstream) ==
    IF access_token = Missing THEN Outcome(Raise("TypeError", "missing access_token"), <<>>, <<>>)
    ELSE IF ~Truthy(access_token) THEN Outcome(Ret(None), <<>>, <<>>)
    ELSE LET sent == <<[req |-> Request(method, endpoint, access_token, params),
                        resp |-> upstream]>>
         IN IF upstream.kind = "http" /\ upstream.status = 200
                  /\ upstream.body /= InvalidJson
            THEN Outcome(Ret(upstream.body), sent, <<>>)
            ELSE Outcome(Ret(None), sent, <<LogRec("error", "API request failed", <<>>)>>)

\* the mutant of make_authenticated_request that sends the request again after a 401
make_authenticated_request_retries_on_401(method, endpoint, access_token, params, upstream) ==
    IF access_token = Missing THEN Outcome(Raise("TypeError", "missing access_token"), <<>>, <<>>)
    ELSE IF ~Truthy(access_token) THEN Outcome(Ret(None), <<>>, <<>>)
    ELSE LET once == [req |-> Request(method, endpoint, access_token, params),
                      resp |-> upstream]
         IN IF upstream.kind = "http" /\ upstream.status = 200
                  /\ upstream.body /= InvalidJson
            THEN Outcome(Ret(upstream.body), <<once>>, <<>>)
            ELSE IF upstream.kind = "http" /\ upstream.status = 401
            THEN Outcome(Ret(None), <<once, once>>, <<>>)
            ELSE Outcome(Ret(None), <<once>>, <<>>)

make_authenticated_request(method, endpoint, access_token, params, upstream) ==
    IF access_token = Missing
    THEN \* the call does not bind access_token: TypeError at the call
         Outcome(Raise("TypeError", "missing access_token"), <<>>, <<>>)
    ELSE IF ~Truthy(access_token)
    THEN Outcome(Ret(None), <<>>,
                 <<LogRec("error", "No access token provided - cannot make API request", <<>>)>>)
    ELSE LET sent == <<[req |-> Request(method, endpoint, access_token, params),
                        resp |-> upstream]>>
         IN CASE upstream.kind = "exc" ->
                   Outcome(Ret(None), sent,
                           <<LogRec("error", "API request failed", <<Str("RequestException")>>)>>)
              [] upstream.kind = "http" /\ upstream.status = 200 ->
                   IF upstream.body = InvalidJson
                   THEN \* response.json() raises; except Exception
                        Outcome(Ret(None), sent,
                                <<LogRec("error", "Unexpected error making API request",
                                         <<Str("JSONDecodeError")>>)>>)
                   ELSE Outcome(Ret(upstream.body), sent, <<>>)
              [] upstream.kind = "http" /\ upstream.status = 401 ->
                   Outcome(Ret(None), sent,
                           <<LogRec("error", "Authentication failed - token may be expired", <<>>)>>)
              [] OTHER ->
                   Outcome(Ret(None), sent,
                           <<LogRec("error", "API request failed with status",
                                    <<IntV(upstream.status), upstream.body>>)>>)

page_size_default == 50

\* params = {'accountKey': ..., 'pageSize': ...}; pageMarker when truthy
AccountParams(account_key, page_size, page_marker) ==
    LET base == [accountKey |-> account_key, pageSize |-> page_size]
    IN Dict(IF Truthy(page_marker) THEN Put(base, "pageMarker", page_marker) ELSE base)

\* params = {'pageSize': ...}; pageMarker when truthy
PageParams(page_size, page_marker) ==
    LET base == [pageSize |-> page_size]
    IN Dict(IF Truthy(page_marker) THEN Put(base, "pageMarker", page_marker) ELSE base)

get_account_info(account_key, access_token, upstream) ==
    make_authenticated_request("GET", <<"accounts", Fmt(account_key)>>, access_token,
                               Dict(EmptyDict), upstream)

get_locations(account_key, access_token, page_size, page_marker, upstream) ==
    make_authenticated_request("GET", <<"locations">>, access_token,
                               AccountParams(account_key, page_size, page_marker), upstream)

get_devices(account_key, access_token, page_size, page_marker, upstream) ==
    make_authenticated_request("GET", <<"devices">>, access_token,
                               AccountParams(account_key, page_size, page_marker), upstream)

get_device_details(device_id, access_token, upstream) ==
    make_authenticated_request("GET", <<"devices", Fmt(device_id)>>, access_token,
                               Dict(EmptyDict), upstream)

\* the call passes no access_token
get_location_devices(location_id, page_size, page_marker, upstream) ==
    make_authenticated_request("GET", <<"locations", Fmt(location_id), "devices">>, Missing,
                               PageParams(page_size, page_marker), upstream)

\* the call passes no access_token
get_location_users(location_id, page_size, page_marker, upstream) ==
    make_authenticated_request("GET", <<"locations", Fmt(location_id), "users">>, Missing,
                               PageParams(page_size, page_marker), upstream)

get_extensions(account_key, access_token, page_size, page_marker, upstream) ==
    make_authenticated_request("GET", <<"extensions">>, access_token,
                               AccountParams(account_key, page_size, page_marker), upstream)

get_phone_numbers(account_key, access_token, page_size, page_marker, upstream) ==
    make_authenticated_request("GET", <<"phone-numbers">>, access_token,
                               AccountParams(account_key, page_size, page_marker), upstream)

get_phone_number_details(phone_number_id, access_token, upstream) ==
    make_authenticated_request("GET", <<"phone-numbers", Fmt(phone_number_id)>>, access_token,
                               Dict(EmptyDict), upstream)

get_device_models(access_token, page_size, page_marker, upstream) ==
    make_authenticated_request("GET", <<"device-models">>, access_token,
                               PageParams(page_size, page_marker), upstream)

get_device_button_configuration(device_id, access_token, upstream) ==
    make_authenticated_request("GET", <<"devices", Fmt(device_id), "buttons-configuration">>,
                               access_token, Dict(EmptyDict), upstream)

reboot_device(device_id, access_token, upstream) ==
    make_authenticated_request("POST", <<"devices", Fmt(device_id), "reboot">>, access_token,
                               Dict(EmptyDict), upstream)

resync_device(device_id, access_token, upstream) ==
    make_authenticated_request("POST", <<"devices", Fmt(device_id), "resync">>, access_token,
                               Dict(EmptyDict), upstream)

get_extension_details(extension_id, access_token, upstream) ==
    make_authenticated_request("GET", <<"extensions", Fmt(extension_id)>>, access_token,
                               Dict(EmptyDict), upstream)

\* the device_info record built for one device of one location
DeviceInfo(device, location, location_id, location_name) ==
    Dict([device_id          |-> Get(device.d, "id"),
          device_status      |-> Get(device.d, "status"),
          license_key        |-> Get(device.d, "licenseKey"),
          location_id        |-> location_id,
          location_name      |-> location_name,
          location_address   |-> GetOr(location.d, "address", Dict(EmptyDict)),
          used_for_emergency |-> GetOr(location.d, "usedForEmergencyServices", BoolV(FALSE))])

\* [DeviceInfo(d, ...) for d in devices], in order
RECURSIVE DeviceInfos(_, _, _, _)
DeviceInfos(devices, location, location_id, location_name) ==
    IF devices = <<>> THEN <<>>
    ELSE <<DeviceInfo(Head(devices), location, location_id, location_name)>>
            \o DeviceInfos(Tail(devices), location, location_id, location_name)

join_page_size == 100

\* the loop "for location in locations" from location number i on; oracle[i + 1] is
\* what the upstream answers to the request made for location i
RECURSIVE JoinLoop(_, _, _, _, _, _)
JoinLoop(locations, i, oracle, data, net, log) ==
    IF i > Len(locations)
    THEN Outcome(Ret(List(data)), net,
                 Append(log, LogRec("info", "Found devices across locations",
                                    <<IntV(Len(data)), IntV(Len(locations))>>)))
    ELSE LET location      == locations[i]
             location_id   == Get(location.d, "id")
             location_name == GetOr(location.d, "name", Str("Unknown Location"))
             r == get_location_devices(location_id, IntV(join_page_size), None, oracle[i + 1])
         IN IF r.out.tag = "raise"
            THEN \* no try in the loop: the exception leaves search_devices_by_location
                 Outcome(r.out, net \o r.net, log \o r.log)
            ELSE IF Truthy(r.out.val) /\ IsDict(r.out.val) /\ HasKey(r.out.val.d, "items")
            THEN JoinLoop(locations, i + 1, oracle,
                          data \o DeviceInfos(r.out.val.d["items"].l, location,
                                              location_id, location_name),
                          net \o r.net, log \o r.log)
            ELSE JoinLoop(locations, i + 1, oracle, data, net \o r.net, log \o r.log)

search_devices_by_location(account_key, access_token, oracle) ==
    LET r == get_locations(account_key, access_token, IntV(join_page_size), None, oracle[1])
    IN IF r.out.tag = "raise" THEN r
       ELSE IF ~Truthy(r.out.val) \/ ~IsDict(r.out.val) \/ ~HasKey(r.out.val.d, "items")
       THEN Outcome(Ret(List(<<>>)), r.net,
                    Append(r.log, LogRec("error", "Failed to get locations", <<>>)))
       ELSE JoinLoop(r.out.val.d["items"].l, 1, oracle, <<>>, r.net, r.log)

(***************************************************************************)
(* AuthService                                                             *)
(***************************************************************************)
\* what the identity provider's token endpoint does with one exchange
TokenA == Dict([access_token |-> Str("tokA"), refresh_token |-> Str("refA")])

TokenB == Dict([access_token |-> Str("tokB"), refresh_token |-> Str("refB")])

Tokens == {TokenA, TokenB}

ProviderFailures == {"ConnectionError", "InvalidGrantError", "MissingTokenError"}

Provider ==
    {[kind |-> "token", token |-> tk, exc |-> ""] : tk \in Tokens}
        \cup {[kind |-> "error", token |-> None, exc |-> e] : e \in ProviderFailures}

\* oauth.authorization_url(auth_url): the URL carries the state given to OAuth2Session
\* (a generated one when none is given), which is returned with it; built = FALSE is
\* OAuth2Session raising
\* the authorization URL for a state (its other query parameters are the same in
\* every URL: response_type, client_id, redirect_uri, scope)
AuthorizeUrl(state) ==
    "https://authentication.logmeininc.com/oauth/authorize?state=" \o state.s

get_authorization_url(state, generated, built) ==
    IF built
    THEN LET used == IF state = None THEN generated ELSE state
         IN Ret(<<Str(AuthorizeUrl(used)), used>>)
    ELSE Raise("AuthenticationError", "Exception")

\* the mutant of exchange_code_for_token that swallows the provider's failure
exchange_code_for_token_swallows_failure(authorization_code, state, provider) ==
    IF provider.kind = "token" THEN Ret(provider.token) ELSE Ret(None)

\* oauth.fetch_token(token_url, authorization_response=None, code=..., client_secret=...)
\* state goes to the OAuth2Session constructor only
exchange_code_for_token(authorization_code, state, provider) ==
    IF provider.kind = "token"
    THEN Ret(provider.token)
    ELSE Raise("AuthenticationError", provider.exc)

\* the mutant of refresh_access_token that returns nothing when the provider fails
refresh_access_token_returns_none(refresh_token, provider) ==
    IF provider.kind = "token" THEN Ret(provider.token) ELSE Ret(None)

\* oauth.refresh_token(token_url, refresh_token=..., client_id=..., client_secret=...)
refresh_access_token(refresh_token, provider) ==
    IF provider.kind = "token"
    THEN Ret(provider.token)
    ELSE Raise("AuthenticationError", provider.exc)

\* the mutant of is_token_valid that takes every HTTP answer for a valid token
is_token_valid_accepts_any_status(token, upstream) ==
    IF ~Truthy(token) \/ ~IsDict(token) \/ ~HasKey(token.d, "access_token")
    THEN Outcome(Ret(BoolV(FALSE)), <<>>, <<>>)
    ELSE Outcome(Ret(BoolV(upstream.kind = "http")),
                 <<[req |-> [method  |-> "GET",
                             url     |-> <<"https://api.jive.com/voice-admin/v1/accounts">>,
                             headers |-> [Authorization |->
                                            <<"Bearer", Fmt(token.d["access_token"])>>],
                             params  |-> Dict(EmptyDict),
                             token   |-> token.d["access_token"]],
                    resp |-> upstream]>>, <<>>)

\* one probe of https://api.jive.com/voice-admin/v1/accounts, timeout 10
is_token_valid(token, upstream) ==
    IF ~Truthy(token) \/ ~IsDict(token) \/ ~HasKey(token.d, "access_token")
    THEN Outcome(Ret(BoolV(FALSE)), <<>>, <<>>)
    ELSE LET sent == <<[req |-> [method  |-> "GET",
                                 url     |-> <<"https://api.jive.com/voice-admin/v1/accounts">>,
                                 headers |-> [Authorization |->
                                                <<"Bearer", Fmt(token.d["access_token"])>>],
                                 params  |-> Dict(EmptyDict),
                                 token   |-> token.d["access_token"]],
                        resp |-> upstream]>>
         IN IF upstream.kind = "exc"
            THEN Outcome(Ret(BoolV(FALSE)), sent,
                         <<LogRec("warning", "Token validation failed", <<Str("Exception")>>)>>)
            ELSE Outcome(Ret(BoolV(upstream.status = 200)), sent, <<>>)

(***************************************************************************)
(* The routes of app.py.  A handler maps the session it finds and the      *)
(* request to the session it leaves, its response, the upstream exchanges  *)
(* it caused, the exceptions it caught and the API client calls it made.   *)
(* flash() is shown as part of the response.                               *)
(***************************************************************************)
Handled(sess, resp, net, raised, calls) ==
    [sess |-> sess, resp |-> resp, net |-> net, raised |-> raised, calls |-> calls]

Redirect(to, flash) ==
    [kind |-> "redirect", to |-> to, status |-> 302, flash |-> flash, data |-> None]

Render(template, flash, data) ==
    [kind |-> "render", to |-> template, status |-> 200, flash |-> flash, data |-> data]

Json(data, status) ==
    [kind |-> "json", to |-> "", status |-> status, flash |-> <<>>, data |-> data]

Text(body, status) ==
    [kind |-> "text", to |-> "", status |-> status, flash |-> <<>>, data |-> Str(body)]

\* one API client call as the handler made it
ApiCall(op, account_key, access_token, r) ==
    [op |-> op, account_key |-> account_key, token |-> access_token, out |-> r.out]

is_authenticated(sess) ==
    IF HasKey(sess, "access_token")
    THEN IsDict(sess["access_token"]) /\ HasKey(sess["access_token"].d, "access_token")
    ELSE FALSE

\* data.get('items', []) if data else []
ItemsOf(data) == IF Truthy(data) THEN GetOr(data.d, "items", List(<<>>)) ELSE List(<<>>)

index(sess) ==
    Handled(sess,
            Render("index.html", <<>>, Dict([is_authenticated |-> BoolV(is_authenticated(sess))])),
            <<>>, <<>>, <<>>)

\* the mutant of authenticate that keeps the state of a login attempt that is pending
authenticate_keeps_pending_state(sess, state, built) ==
    LET r == get_authorization_url(state, state, built)
    IN IF r.tag = "raise"
       THEN Handled(sess,
                    Redirect("index", <<"error", "Failed to start authentication. Please try again.">>),
                    <<>>, <<r.exc>>, <<>>)
       ELSE Handled(IF HasKey(sess, "oauth_state") THEN sess
                    ELSE Put(sess, "oauth_state", r.val[2]),
                    Redirect(r.val[1].s, <<>>), <<>>, <<>>, <<>>)

\* state is secrets.token_urlsafe(32)
authenticate(sess, state, built) ==
    LET r == get_authorization_url(state, state, built)
    IN IF r.tag = "raise"
       THEN Handled(sess,
                    Redirect("index", <<"error", "Failed to start authentication. Please try again.">>),
                    <<>>, <<r.exc>>, <<>>)
       ELSE Handled(Put(sess, "oauth_state", r.val[2]),
                    Redirect(r.val[1].s, <<>>), <<>>, <<>>, <<>>)

\* the mutant of auth_callback that does not verify the state parameter
auth_callback_without_state_check(sess, code, state, error, provider) ==
    IF Truthy(error) \/ ~Truthy(code)
    THEN Handled(sess, Redirect("index", <<"error", "Authentication error">>), <<>>, <<>>, <<>>)
    ELSE LET r == exchange_code_for_token(code, state, provider)
         IN IF r.tag = "raise"
            THEN Handled(sess,
                         Redirect("index", <<"error", "Authentication failed. Please try again.">>),
                         <<>>, <<r.exc>>,
                         <<[op |-> "exchange_code_for_token", account_key |-> None,
                            token |-> None, out |-> r]>>)
            ELSE Handled(Pop(Put(sess, "access_token", r.val), "oauth_state"),
                         Redirect("dashboard", <<"success", "Authentication successful!">>),
                         <<>>, <<>>,
                         <<[op |-> "exchange_code_for_token", account_key |-> None,
                            token |-> None, out |-> r]>>)

\* the mutant of auth_callback that leaves oauth_state in the session after a success
auth_callback_keeps_state(sess, code, state, error, provider) ==
    LET session_state == Get(sess, "oauth_state")
    IN IF Truthy(error) \/ ~Truthy(code)
       THEN Handled(sess, Redirect("index", <<"error", "Authentication error">>),
                    <<>>, <<>>, <<>>)
       ELSE IF ~Truthy(session_state) \/ state /= session_state
       THEN Handled(sess,
                    Redirect("index", <<"error",
                             "Authentication failed due to state mismatch. Please try again.">>),
                    <<>>, <<>>, <<>>)
       ELSE LET r == exchange_code_for_token(code, state, provider)
                made == <<[op |-> "exchange_code_for_token", account_key |-> None,
                           token |-> None, out |-> r]>>
            IN IF r.tag = "raise"
               THEN Handled(sess,
                            Redirect("index", <<"error", "Authentication failed. Please try again.">>),
                            <<>>, <<r.exc>>, made)
               ELSE Handled(Put(sess, "access_token", r.val),
                            Redirect("dashboard", <<"success", "Authentication successful!">>),
                            <<>>, <<>>, made)

\* the mutant of auth_callback that discards oauth_state when the exchange fails
auth_callback_discards_state_on_failure(sess, code, state, error, provider) ==
    LET session_state == Get(sess, "oauth_state")
    IN IF Truthy(error) \/ ~Truthy(code)
       THEN Handled(sess, Redirect("index", <<"error", "Authentication error">>),
                    <<>>, <<>>, <<>>)
       ELSE IF ~Truthy(session_state) \/ state /= session_state
       THEN Handled(sess,
                    Redirect("index", <<"error",
                             "Authentication failed due to state mismatch. Please try again.">>),
                    <<>>, <<>>, <<>>)
       ELSE LET r == exchange_code_for_token(code, state, provider)
                made == <<[op |-> "exchange_code_for_token", account_key |-> None,
                           token |-> None, out |-> r]>>
            IN IF r.tag = "raise"
               THEN Handled(Pop(sess, "oauth_state"),
                            Redirect("index", <<"error", "Authentication failed. Please try again.">>),
                            <<>>, <<r.exc>>, made)
               ELSE Handled(Pop(Put(sess, "access_token", r.val), "oauth_state"),
                            Redirect("dashboard", <<"success", "Authentication successful!">>),
                            <<>>, <<>>, made)

\* the mutant of auth_callback that keeps the Token of a session that already has one
auth_callback_keeps_old_token(sess, code, state, error, provider) ==
    LET session_state == Get(sess, "oauth_state")
    IN IF Truthy(error) \/ ~Truthy(code)
       THEN Handled(sess, Redirect("index", <<"error", "Authentication error">>),
                    <<>>, <<>>, <<>>)
       ELSE IF ~Truthy(session_state) \/ state /= session_state
       THEN Handled(sess,
                    Redirect("index", <<"error",
                             "Authentication failed due to state mismatch. Please try again.">>),
                    <<>>, <<>>, <<>>)
       ELSE LET r == exchange_code_for_token(code, state, provider)
                made == <<[op |-> "exchange_code_for_token", account_key |-> None,
                           token |-> None, out |-> r]>>
            IN IF r.tag = "raise"
               THEN Handled(sess,
                            Redirect("index", <<"error", "Authentication failed. Please try again.">>),
                            <<>>, <<r.exc>>, made)
               ELSE Handled(IF HasKey(sess, "access_token")
                            THEN Pop(sess, "oauth_state")
                            ELSE Pop(Put(sess, "access_token", r.val), "oauth_state"),
                            Redirect("dashboard", <<"success", "Authentication successful!">>),
                            <<>>, <<>>, made)

auth_callback(sess, code, state, error, provider) ==
    LET session_state == Get(sess, "oauth_state")
    IN IF Truthy(error)
       THEN Handled(sess, Redirect("index", <<"error", "Authentication error">>),
                    <<>>, <<>>, <<>>)
       ELSE IF ~Truthy(code)
       THEN Handled(sess,
                    Redirect("index", <<"error", "Authentication was cancelled or failed.">>),
                    <<>>, <<>>, <<>>)
       ELSE IF ~Truthy(session_state) \/ state /= session_state
       THEN Handled(sess,
                    Redirect("index", <<"error",
                             "Authentication failed due to state mismatch. Please try again.">>),
                    <<>>, <<>>, <<>>)
       ELSE LET r == exchange_code_for_token(code, state, provider)
            IN IF r.tag = "raise"
               THEN \* except Exception: nothing was written to the session yet
                    Handled(sess,
                            Redirect("index", <<"error", "Authentication failed. Please try again.">>),
                            <<>>, <<r.exc>>,
                            <<[op |-> "exchange_code_for_token", account_key |-> None,
                               token |-> None, out |-> r]>>)
               ELSE Handled(Pop(Put(sess, "access_token", r.val), "oauth_state"),
                            Redirect("dashboard", <<"success", "Authentication successful!">>),
                            <<>>, <<>>,
                            <<[op |-> "exchange_code_for_token", account_key |-> None,
                               token |-> None, out |-> r]>>)

\* the mutant of logout that keeps the account key
logout_keeps_account_key(sess) ==
    Handled(Pop(Pop(sess, "access_token"), "oauth_state"),
            Redirect("index", <<"info", "You have been logged out.">>), <<>>, <<>>, <<>>)

\* session.clear()
logout(sess) ==
    Handled(EmptyDict, Redirect("index", <<"info", "You have been logged out.">>),
            <<>>, <<>>, <<>>)

dashboard(sess, method, form_key, arg_key) ==
    IF ~is_authenticated(sess)
    THEN Handled(sess, Redirect("index", <<"warning", "Please authenticate first.">>),
                 <<>>, <<>>, <<>>)
    ELSE LET posted == method = "POST" /\ Truthy(form_key)
             sess2  == IF posted THEN Put(sess, "account_key", form_key) ELSE sess
             flash  == IF method /= "POST" THEN <<>>
                       ELSE IF Truthy(form_key)
                       THEN <<"success", "Account key updated successfully!">>
                       ELSE <<"error", "Please enter an account key.">>
             account_key == Or(Get(sess2, "account_key"), arg_key)
         IN Handled(sess2, Render("dashboard.html", flash, Dict([account_key |-> account_key])),
                    <<>>, <<>>, <<>>)

\* the mutant of locations that drops the session token when the fetch fails
locations_clears_token_on_failure(sess, arg_key, upstream) ==
    IF ~is_authenticated(sess) \/ ~Truthy(Or(Get(sess, "account_key"), arg_key))
    THEN Handled(sess, Redirect("index", <<>>), <<>>, <<>>, <<>>)
    ELSE LET account_key  == Or(Get(sess, "account_key"), arg_key)
             access_token == sess["access_token"].d["access_token"]
             r == get_locations(account_key, access_token, IntV(page_size_default), None, upstream)
         IN IF r.out.val = None
            THEN Handled(Pop(sess, "access_token"), Redirect("index", <<>>), r.net, <<>>,
                         <<ApiCall("get_locations", account_key, access_token, r)>>)
            ELSE Handled(sess, Render("locations.html", <<>>, r.out.val), r.net, <<>>,
                         <<ApiCall("get_locations", account_key, access_token, r)>>)

locations(sess, arg_key, upstream) ==
    IF ~is_authenticated(sess)
    THEN Handled(sess, Redirect("index", <<"warning", "Please authenticate first.">>),
                 <<>>, <<>>, <<>>)
    ELSE LET account_key == Or(Get(sess, "account_key"), arg_key)
         IN IF ~Truthy(account_key)
            THEN Handled(sess,
                         Redirect("dashboard", <<"warning",
                                  "Please set your account key in the dashboard first.">>),
                         <<>>, <<>>, <<>>)
            ELSE LET sess2 == IF Truthy(arg_key) THEN Put(sess, "account_key", account_key)
                              ELSE sess
                     access_token == sess2["access_token"].d["access_token"]
                     r == get_locations(account_key, access_token, IntV(page_size_default), None, upstream)
                     made == <<ApiCall("get_locations", account_key, access_token, r)>>
                 IN IF r.out.tag = "raise"
                    THEN Handled(sess2, Redirect("dashboard", <<"error", "Error fetching locations">>),
                                 r.net, <<r.out.exc>>, made)
                    ELSE IF r.out.val = None
                    THEN Handled(sess2,
                                 Redirect("dashboard", <<"error",
                                          "Failed to fetch locations. Please try again.">>),
                                 r.net, <<>>, made)
                    ELSE IF ~IsDict(r.out.val)
                    THEN Handled(sess2, Redirect("dashboard", <<"error", "Error fetching locations">>),
                                 r.net, <<"AttributeError">>, made)
                    ELSE Handled(sess2,
                                 Render("locations.html", <<>>,
                                        Dict([locations |-> GetOr(r.out.val.d, "items", List(<<>>)),
                                              account_key |-> account_key,
                                              next_page_marker |-> Get(r.out.val.d, "nextPageMarker")])),
                                 r.net, <<>>, made)

devices(sess, arg_key, upstream) ==
    IF ~is_authenticated(sess)
    THEN Handled(sess, Redirect("index", <<"warning", "Please authenticate first.">>),
                 <<>>, <<>>, <<>>)
    ELSE LET account_key == Or(Get(sess, "account_key"), arg_key)
         IN IF ~Truthy(account_key)
            THEN Handled(sess,
                         Redirect("dashboard", <<"warning",
                                  "Please set your account key in the dashboard first.">>),
                         <<>>, <<>>, <<>>)
            ELSE LET sess2 == IF Truthy(arg_key) THEN Put(sess, "account_key", account_key)
                              ELSE sess
                     access_token == sess2["access_token"].d["access_token"]
                     r == get_devices(account_key, access_token, IntV(page_size_default), None, upstream)
                     made == <<ApiCall("get_devices", account_key, access_token, r)>>
                 IN IF r.out.tag = "raise"
                    THEN Handled(sess2, Redirect("dashboard", <<"error", "Error fetching devices">>),
                                 r.net, <<r.out.exc>>, made)
                    ELSE IF r.out.val = None
                    THEN Handled(sess2,
                                 Redirect("dashboard", <<"error",
                                          "Failed to fetch devices. Please try again.">>),
                                 r.net, <<>>, made)
                    ELSE IF ~IsDict(r.out.val)
                    THEN Handled(sess2, Redirect("dashboard", <<"error", "Error fetching devices">>),
                                 r.net, <<"AttributeError">>, made)
                    ELSE Handled(sess2,
                                 Render("devices.html", <<>>,
                                        Dict([devices |-> GetOr(r.out.val.d, "items", List(<<>>)),
                                              account_key |-> account_key,
                                              next_page_marker |-> Get(r.out.val.d, "nextPageMarker")])),
                                 r.net, <<>>, made)

\* groups, in order of first appearance, of the dicts of items by d.get(field, default)
RECURSIVE GroupByField(_, _, _, _)
GroupByField(items, field, default, acc) ==
    IF items = <<>> THEN acc
    ELSE LET item == Head(items)
             k    == GetOr(item.d, field, default)
             at   == {n \in 1..Len(acc) : acc[n].key = k}
         IN GroupByField(Tail(items), field, default,
                IF at = {}
                THEN Append(acc, [key |-> k, members |-> <<item>>])
                ELSE [n \in 1..Len(acc) |->
                        IF n \in at
                        THEN [key |-> k, members |-> Append(acc[n].members, item)]
                        ELSE acc[n]])

\* location_groups.values() of device_locations
LocationGroups(device_location_data) ==
    LET groups == GroupByField(device_location_data, "location_name", None, <<>>)
    IN [n \in 1..Len(groups) |->
          LET first == groups[n].members[1]
          IN Dict([location |-> Dict([name |-> groups[n].key,
                                      id   |-> first.d["location_id"],
                                      address |-> first.d["location_address"],
                                      usedForEmergencyServices |-> first.d["used_for_emergency"]]),
                   devices  |-> List(groups[n].members)])]

device_locations(sess, oracle) ==
    IF ~is_authenticated(sess)
    THEN Handled(sess, Redirect("index", <<>>), <<>>, <<>>, <<>>)
    ELSE LET account_key == Get(sess, "account_key")
         IN IF ~Truthy(account_key)
            THEN Handled(sess, Redirect("dashboard", <<>>), <<>>, <<>>, <<>>)
            ELSE LET access_token == Get(sess, "access_token")
                 IN IF ~Truthy(access_token)
                    THEN Handled(sess, Redirect("index", <<>>), <<>>, <<>>, <<>>)
                    ELSE LET r == search_devices_by_location(account_key, access_token, oracle)
                             made == <<ApiCall("search_devices_by_location", account_key,
                                               access_token, r)>>
                         IN IF r.out.tag = "raise"
                            THEN Handled(sess,
                                         Render("error.html", <<>>,
                                                Dict([error_message |->
                                                        Str("Failed to retrieve device locations"),
                                                      error_details |-> Str(r.out.exc)])),
                                         r.net, <<r.out.exc>>, made)
                            ELSE Handled(sess,
                                         Render("device_locations.html", <<>>,
                                                Dict([location_groups |->
                                                        List(LocationGroups(r.out.val.l)),
                                                      account_key |-> account_key])),
                                         r.net, <<>>, made)

phone_numbers(sess, upstream) ==
    IF ~is_authenticated(sess)
    THEN Handled(sess, Redirect("index", <<>>), <<>>, <<>>, <<>>)
    ELSE LET account_key == Get(sess, "account_key")
         IN IF ~Truthy(account_key)
            THEN Handled(sess, Redirect("dashboard", <<>>), <<>>, <<>>, <<>>)
            ELSE LET access_token == Get(sess, "access_token")
                 IN IF ~Truthy(access_token)
                    THEN Handled(sess, Redirect("index", <<>>), <<>>, <<>>, <<>>)
                    ELSE LET r == get_phone_numbers(account_key, access_token.d["access_token"],
                                                    IntV(page_size_default), None, upstream)
                             made == <<ApiCall("get_phone_numbers", account_key,
                                               access_token.d["access_token"], r)>>
                             failed == r.out.tag = "raise"
                                         \/ (Truthy(r.out.val) /\ ~IsDict(r.out.val))
                         IN IF failed
                            THEN Handled(sess,
                                         Render("error.html", <<>>,
                                                Dict([error_message |-> Str("Failed to retrieve phone numbers")])),
                                         r.net,
                                         <<IF r.out.tag = "raise" THEN r.out.exc
                                           ELSE "AttributeError">>,
                                         made)
                            ELSE Handled(sess,
                                         Render("phone_numbers.html", <<>>,
                                                Dict([phone_numbers |-> ItemsOf(r.out.val),
                                                      account_key |-> account_key])),
                                         r.net, <<>>, made)

extensions(sess, upstream) ==
    IF ~is_authenticated(sess)
    THEN Handled(sess, Redirect("index", <<>>), <<>>, <<>>, <<>>)
    ELSE LET account_key == Get(sess, "account_key")
         IN IF ~Truthy(account_key)
            THEN Handled(sess, Redirect("dashboard", <<>>), <<>>, <<>>, <<>>)
            ELSE LET access_token == Get(sess, "access_token")
                 IN IF ~Truthy(access_token)
                    THEN Handled(sess, Redirect("index", <<>>), <<>>, <<>>, <<>>)
                    ELSE LET r == get_extensions(account_key, access_token.d["access_token"],
                                                 IntV(page_size_default), None, upstream)
                             made == <<ApiCall("get_extensions", account_key,
                                               access_token.d["access_token"], r)>>
                             failed == r.out.tag = "raise"
                                         \/ (Truthy(r.out.val) /\ ~IsDict(r.out.val))
                         IN IF failed
                            THEN Handled(sess,
                                         Render("error.html", <<>>,
                                                Dict([error_message |-> Str("Failed to retrieve extensions")])),
                                         r.net,
                                         <<IF r.out.tag = "raise" THEN r.out.exc
                                           ELSE "AttributeError">>,
                                         made)
                            ELSE Handled(sess,
                                         Render("extensions.html", <<>>,
                                                Dict([extension_groups |-> List(GroupByField(ItemsOf(r.out.val).l, "type", Str("UNKNOWN"), <<>>)),
                                                      account_key |-> account_key])),
                                         r.net, <<>>, made)

device_models(sess, upstream) ==
    IF ~is_authenticated(sess)
    THEN Handled(sess, Redirect("index", <<>>), <<>>, <<>>, <<>>)
    ELSE LET account_key == Get(sess, "account_key")
         IN IF ~Truthy(account_key)
            THEN Handled(sess, Redirect("dashboard", <<>>), <<>>, <<>>, <<>>)
            ELSE LET access_token == Get(sess, "access_token")
                 IN IF ~Truthy(access_token)
                    THEN Handled(sess, Redirect("index", <<>>), <<>>, <<>>, <<>>)
                    ELSE LET r == get_device_models(access_token.d["access_token"],
                                                    IntV(page_size_default), None, upstream)
                             made == <<ApiCall("get_device_models", account_key,
                                               access_token.d["access_token"], r)>>
                             failed == r.out.tag = "raise"
                                         \/ (Truthy(r.out.val) /\ ~IsDict(r.out.val))
                         IN IF failed
                            THEN Handled(sess,
                                         Render("error.html", <<>>,
                                                Dict([error_message |-> Str("Failed to retrieve device models")])),
                                         r.net,
                                         <<IF r.out.tag = "raise" THEN r.out.exc
                                           ELSE "AttributeError">>,
                                         made)
                            ELSE Handled(sess,
                                         Render("device_models.html", <<>>,
                                                Dict([device_models |-> ItemsOf(r.out.val),
                                                      account_key |-> account_key])),
                                         r.net, <<>>, made)

\* route /device/<device_id>/reboot
reboot_device_view(sess, device_id, upstream) ==
    IF ~is_authenticated(sess)
    THEN Handled(sess, Json(Dict([success |-> BoolV(FALSE), message |-> Str("Not authenticated")]), 200),
                 <<>>, <<>>, <<>>)
    ELSE IF ~Truthy(Get(sess, "account_key"))
    THEN Handled(sess,
                 Json(Dict([success |-> BoolV(FALSE), message |-> Str("No account key in session")]), 200),
                 <<>>, <<>>, <<>>)
    ELSE LET access_token == Get(sess, "access_token")
         IN IF ~Truthy(access_token)
            THEN Handled(sess,
                         Json(Dict([success |-> BoolV(FALSE),
                                    message |-> Str("No access token available")]), 200),
                         <<>>, <<>>, <<>>)
            ELSE LET r == reboot_device(device_id, access_token, upstream)
                     made == <<ApiCall("reboot_device", None, access_token, r)>>
                 IN IF r.out.tag = "raise"
                    THEN Handled(sess,
                                 Json(Dict([success |-> BoolV(FALSE),
                                            message |-> Str("Failed to reboot device")]), 200),
                                 r.net, <<r.out.exc>>, made)
                    ELSE \* result is not looked at
                         Handled(sess,
                                 Json(Dict([success |-> BoolV(TRUE),
                                            message |-> Str("Device reboot initiated successfully")]), 200),
                                 r.net, <<>>, made)

\* route /device/<device_id>/resync
resync_device_view(sess, device_id, upstream) ==
    IF ~is_authenticated(sess)
    THEN Handled(sess, Json(Dict([success |-> BoolV(FALSE), message |-> Str("Not authenticated")]), 200),
                 <<>>, <<>>, <<>>)
    ELSE IF ~Truthy(Get(sess, "account_key"))
    THEN Handled(sess,
                 Json(Dict([success |-> BoolV(FALSE), message |-> Str("No account key in session")]), 200),
                 <<>>, <<>>, <<>>)
    ELSE LET access_token == Get(sess, "access_token")
         IN IF ~Truthy(access_token)
            THEN Handled(sess,
                         Json(Dict([success |-> BoolV(FALSE),
                                    message |-> Str("No access token available")]), 200),
                         <<>>, <<>>, <<>>)
            ELSE LET r == resync_device(device_id, access_token, upstream)
                     made == <<ApiCall("resync_device", None, access_token, r)>>
                 IN IF r.out.tag = "raise"
                    THEN Handled(sess,
                                 Json(Dict([success |-> BoolV(FALSE),
                                            message |-> Str("Failed to resync device")]), 200),
                                 r.net, <<r.out.exc>>, made)
                    ELSE \* result is not looked at
                         Handled(sess,
                                 Json(Dict([success |-> BoolV(TRUE),
                                            message |-> Str("Device resync initiated successfully")]), 200),
                                 r.net, <<>>, made)

location_detail(sess, location_id, upstream, upstream2) ==
    IF ~is_authenticated(sess)
    THEN Handled(sess, Redirect("index", <<"warning", "Please authenticate first.">>),
                 <<>>, <<>>, <<>>)
    ELSE LET r1 == get_location_devices(location_id, IntV(page_size_default), None, upstream)
             made1 == <<ApiCall("get_location_devices", None, Missing, r1)>>
         IN IF r1.out.tag = "raise" \/ (Truthy(r1.out.val) /\ ~IsDict(r1.out.val))
            THEN Handled(sess, Redirect("dashboard", <<"error", "Error fetching location details">>),
                         r1.net,
                         <<IF r1.out.tag = "raise" THEN r1.out.exc ELSE "AttributeError">>, made1)
            ELSE LET r2 == get_location_users(location_id, IntV(page_size_default), None, upstream2)
                     made2 == Append(made1, ApiCall("get_location_users", None, Missing, r2))
                 IN IF r2.out.tag = "raise" \/ (Truthy(r2.out.val) /\ ~IsDict(r2.out.val))
                    THEN Handled(sess,
                                 Redirect("dashboard", <<"error", "Error fetching location details">>),
                                 r1.net \o r2.net,
                                 <<IF r2.out.tag = "raise" THEN r2.out.exc ELSE "AttributeError">>,
                                 made2)
                    ELSE Handled(sess,
                                 Render("location_detail.html", <<>>,
                                        Dict([location_id |-> location_id,
                                              devices |-> ItemsOf(r1.out.val),
                                              users   |-> ItemsOf(r2.out.val)])),
                                 r1.net \o r2.net, <<>>, made2)

\* the mutant of api_device_details that goes on without asking is_authenticated
api_device_details_without_auth_check(sess, device_id, upstream) ==
    LET access_token == Get(sess, "access_token")
    IN IF ~Truthy(access_token)
       THEN Handled(sess, Json(Dict([error |-> Str("No access token available")]), 401),
                    <<>>, <<>>, <<>>)
       ELSE LET r == get_device_details(device_id, access_token.d["access_token"], upstream)
                made == <<ApiCall("get_device_details", None,
                                  access_token.d["access_token"], r)>>
            IN IF r.out.tag = "raise" \/ r.out.val = None
               THEN Handled(sess, Json(Dict([error |-> Str("Device not found")]), 404),
                            r.net, <<>>, made)
               ELSE Handled(sess, Json(r.out.val, 200), r.net, <<>>, made)

api_device_details(sess, device_id, upstream) ==
    IF ~is_authenticated(sess)
    THEN Handled(sess, Json(Dict([error |-> Str("Not authenticated")]), 401), <<>>, <<>>, <<>>)
    ELSE LET access_token == Get(sess, "access_token")
         IN IF ~Truthy(access_token)
            THEN Handled(sess, Json(Dict([error |-> Str("No access token available")]), 401),
                         <<>>, <<>>, <<>>)
            ELSE LET r == get_device_details(device_id, access_token.d["access_token"], upstream)
                     made == <<ApiCall("get_device_details", None,
                                       access_token.d["access_token"], r)>>
                 IN IF r.out.tag = "raise"
                    THEN Handled(sess, Json(Dict([error |-> Str(r.out.exc)]), 500),
                                 r.net, <<r.out.exc>>, made)
                    ELSE IF r.out.val = None
                    THEN Handled(sess, Json(Dict([error |-> Str("Device not found")]), 404),
                                 r.net, <<>>, made)
                    ELSE Handled(sess, Json(r.out.val, 200), r.net, <<>>, made)

device_details(sess, device_key, upstream) ==
    IF ~is_authenticated(sess)
    THEN Handled(sess, Redirect("index", <<>>), <<>>, <<>>, <<>>)
    ELSE LET account_key  == Get(sess, "account_key")
             access_token == Get(sess, "access_token")
         IN IF ~Truthy(account_key)
            THEN Handled(sess,
                         Redirect("dashboard", <<"warning",
                                  "Please set your account key in the dashboard first.">>),
                         <<>>, <<>>, <<>>)
            ELSE IF ~Truthy(access_token)
            THEN Handled(sess, Redirect("index", <<"warning", "Authentication required.">>),
                         <<>>, <<>>, <<>>)
            ELSE LET r == get_device_details(device_key, access_token.d["access_token"], upstream)
                     made == <<ApiCall("get_device_details", None,
                                       access_token.d["access_token"], r)>>
                 IN IF r.out.tag = "raise"
                    THEN Handled(sess, Redirect("devices", <<"error", "Error loading device details">>),
                                 r.net, <<r.out.exc>>, made)
                    ELSE IF ~Truthy(r.out.val)
                    THEN Handled(sess, Redirect("devices", <<"error", "Device not found.">>),
                                 r.net, <<>>, made)
                    ELSE Handled(sess,
                                 Render("device_detail.html", <<>>,
                                        Dict([device |-> r.out.val, account_key |-> account_key])),
                                 r.net, <<>>, made)

device_location(sess, device_key, upstream) ==
    IF ~is_authenticated(sess)
    THEN Handled(sess, Redirect("index", <<>>), <<>>, <<>>, <<>>)
    ELSE LET account_key  == Get(sess, "account_key")
             access_token == Get(sess, "access_token")
         IN IF ~Truthy(account_key)
            THEN Handled(sess,
                         Redirect("dashboard", <<"warning",
                                  "Please set your account key in the dashboard first.">>),
                         <<>>, <<>>, <<>>)
            ELSE LET r == get_device_details(device_key, access_token.d["access_token"], upstream)
                     made == <<ApiCall("get_device_details", None,
                                       access_token.d["access_token"], r)>>
                 IN IF r.out.tag = "raise" \/ (Truthy(r.out.val) /\ ~IsDict(r.out.val))
                    THEN Handled(sess,
                                 Redirect("devices", <<"error", "Error loading device location">>),
                                 r.net,
                                 <<IF r.out.tag = "raise" THEN r.out.exc ELSE "AttributeError">>,
                                 made)
                    ELSE IF ~Truthy(r.out.val) \/ ~Truthy(Get(r.out.val.d, "location"))
                    THEN Handled(sess,
                                 Redirect("devices", <<"error", "Device or location not found.">>),
                                 r.net, <<>>, made)
                    ELSE LET location    == r.out.val.d["location"]
                             location_id == Or(Get(location.d, "key"), Get(location.d, "id"))
                         IN IF Truthy(location_id)
                            THEN Handled(sess, Redirect("location_detail", <<>>), r.net, <<>>, made)
                            ELSE Handled(sess,
                                         Redirect("device_details", <<"warning",
                                                  "Location information not available for this device.">>),
                                         r.net, <<>>, made)

phone_number_details(sess, phone_number_id, upstream) ==
    IF ~is_authenticated(sess)
    THEN Handled(sess, Redirect("index", <<>>), <<>>, <<>>, <<>>)
    ELSE LET account_key == Get(sess, "account_key")
         IN IF ~Truthy(account_key)
            THEN Handled(sess,
                         Redirect("dashboard", <<"warning",
                                  "Please set your account key in the dashboard first.">>),
                         <<>>, <<>>, <<>>)
            ELSE LET access_token == sess["access_token"].d["access_token"]
                     r == get_phone_number_details(phone_number_id, access_token, upstream)
                     made == <<ApiCall("get_phone_number_details", None, access_token, r)>>
                 IN IF r.out.tag = "raise"
                    THEN Handled(sess,
                                 Redirect("phone_numbers", <<"error",
                                          "Error loading phone number details">>),
                                 r.net, <<r.out.exc>>, made)
                    ELSE IF r.out.val = None
                    THEN Handled(sess,
                                 Redirect("phone_numbers", <<"error",
                                          "Phone number not found or access denied.">>),
                                 r.net, <<>>, made)
                    ELSE Handled(sess,
                                 Render("phone_number_detail.html", <<>>,
                                        Dict([phone_number |-> r.out.val,
                                              account_key |-> account_key])),
                                 r.net, <<>>, made)

favicon(sess) == Handled(sess, Text("", 204), <<>>, <<>>, <<>>)

\* route /reboot-device; data is request.get_json()
reboot_device_api(sess, data, upstream) ==
    IF ~is_authenticated(sess)
    THEN Handled(sess, Json(Dict([success |-> BoolV(FALSE), error |-> Str("Not authenticated")]), 401),
                 <<>>, <<>>, <<>>)
    ELSE IF ~IsDict(data)
    THEN \* data.get on a body that is no JSON object; except Exception
         Handled(sess, Json(Dict([success |-> BoolV(FALSE), error |-> Str("AttributeError")]), 200),
                 <<>>, <<"AttributeError">>, <<>>)
    ELSE LET device_key == Get(data.d, "device_key")
         IN IF ~Truthy(device_key)
            THEN Handled(sess,
                         Json(Dict([success |-> BoolV(FALSE),
                                    error |-> Str("Device key is required")]), 200),
                         <<>>, <<>>, <<>>)
            ELSE LET access_token == Get(sess, "access_token")
                 IN IF ~Truthy(access_token)
                    THEN Handled(sess,
                                 Json(Dict([success |-> BoolV(FALSE),
                                            error |-> Str("No access token available")]), 200),
                                 <<>>, <<>>, <<>>)
                    ELSE LET r == reboot_device(device_key, access_token.d["access_token"], upstream)
                             made == <<ApiCall("reboot_device", None, access_token.d["access_token"], r)>>
                         IN IF r.out.tag = "raise"
                            THEN Handled(sess,
                                         Json(Dict([success |-> BoolV(FALSE),
                                                    error |-> Str(r.out.exc)]), 200),
                                         r.net, <<r.out.exc>>, made)
                            ELSE Handled(sess,
                                         Json(Dict([success |-> BoolV(TRUE),
                                                    result |-> r.out.val]), 200),
                                         r.net, <<>>, made)

\* route /resync-device; data is request.get_json()
resync_device_api(sess, data, upstream) ==
    IF ~is_authenticated(sess)
    THEN Handled(sess, Json(Dict([success |-> BoolV(FALSE), error |-> Str("Not authenticated")]), 401),
                 <<>>, <<>>, <<>>)
    ELSE IF ~IsDict(data)
    THEN \* data.get on a body that is no JSON object; except Exception
         Handled(sess, Json(Dict([success |-> BoolV(FALSE), error |-> Str("AttributeError")]), 200),
                 <<>>, <<"AttributeError">>, <<>>)
    ELSE LET device_key == Get(data.d, "device_key")
         IN IF ~Truthy(device_key)
            THEN Handled(sess,
                         Json(Dict([success |-> BoolV(FALSE),
                                    error |-> Str("Device key is required")]), 200),
                         <<>>, <<>>, <<>>)
            ELSE LET access_token == Get(sess, "access_token")
                 IN IF ~Truthy(access_token)
                    THEN Handled(sess,
                                 Json(Dict([success |-> BoolV(FALSE),
                                            error |-> Str("No access token available")]), 200),
                                 <<>>, <<>>, <<>>)
                    ELSE LET r == resync_device(device_key, access_token.d["access_token"], upstream)
                             made == <<ApiCall("resync_device", None, access_token.d["access_token"], r)>>
                         IN IF r.out.tag = "raise"
                            THEN Handled(sess,
                                         Json(Dict([success |-> BoolV(FALSE),
                                                    error |-> Str(r.out.exc)]), 200),
                                         r.net, <<r.out.exc>>, made)
                            ELSE Handled(sess,
                                         Json(Dict([success |-> BoolV(TRUE),
                                                    result |-> r.out.val]), 200),
                                         r.net, <<>>, made)

\* the mutant of device_management that lists devices without looking for an account key
device_management_without_key_check(sess, upstream) ==
    IF ~is_authenticated(sess)
    THEN Handled(sess, Redirect("index", <<>>), <<>>, <<>>, <<>>)
    ELSE LET account_key  == Get(sess, "account_key")
             access_token == Get(sess, "access_token")
             r == get_devices(account_key, access_token.d["access_token"],
                              IntV(page_size_default), None, upstream)
         IN Handled(sess,
                    Render("device_management.html", <<>>,
                           Dict([devices |-> IF r.out.tag = "ret" /\ IsDict(r.out.val)
                                             THEN ItemsOf(r.out.val) ELSE List(<<>>)])),
                    r.net, <<>>,
                    <<ApiCall("get_devices", account_key, access_token.d["access_token"], r)>>)

device_management(sess, upstream) ==
    IF ~is_authenticated(sess)
    THEN Handled(sess, Redirect("index", <<>>), <<>>, <<>>, <<>>)
    ELSE LET account_key  == Get(sess, "account_key")
             access_token == Get(sess, "access_token")
         IN IF ~Truthy(account_key)
            THEN Handled(sess,
                         Redirect("dashboard", <<"warning",
                                  "Please set your account key in the dashboard first.">>),
                         <<>>, <<>>, <<>>)
            ELSE LET r == get_devices(account_key, access_token.d["access_token"],
                                      IntV(page_size_default), None, upstream)
                     made == <<ApiCall("get_devices", account_key,
                                       access_token.d["access_token"], r)>>
                 IN IF r.out.tag = "raise" \/ (Truthy(r.out.val) /\ ~IsDict(r.out.val))
                    THEN Handled(sess,
                                 Redirect("dashboard", <<"error", "Error loading device management">>),
                                 r.net,
                                 <<IF r.out.tag = "raise" THEN r.out.exc ELSE "AttributeError">>,
                                 made)
                    ELSE Handled(sess,
                                 Render("device_management.html", <<>>,
                                        Dict([devices |-> ItemsOf(r.out.val)])),
                                 r.net, <<>>, made)

extension_details(sess, extension_id) ==
    IF ~is_authenticated(sess)
    THEN Handled(sess, Redirect("index", <<>>), <<>>, <<>>, <<>>)
    ELSE Handled(sess,
                 Redirect("extensions", <<"info", "Extension details view not yet implemented">>),
                 <<>>, <<>>, <<>>)

\* debug is Config.DEBUG
debug_session(sess, debug) ==
    IF ~debug
    THEN Handled(sess, Text("Debug mode only", 403), <<>>, <<>>, <<>>)
    ELSE Handled(sess,
                 Json(Dict([session_keys |-> DOMAIN sess,
                            oauth_state  |-> Get(sess, "oauth_state")]), 200),
                 <<>>, <<>>, <<>>)

(***************************************************************************)
(* Inputs.                                                                 *)
(***************************************************************************)
Sessions == {"s1"}

\* values secrets.token_urlsafe(32) may give
StateValues == {Str("st1"), Str("st2")}

AccountKeys == {Str("acctA"), Str("acctB")}

\* request.args.get(...) / request.form.get(...): None when the parameter is absent,
\* the empty string when it is given without a value
OptionalKeys == {None, Str("")} \cup AccountKeys

Codes == {None, Str("code1")}

CallbackStates == {None} \cup StateValues

Errors == {None, Str("access_denied")}

DeviceIds == {Str("dev1")}

LocationIds == {Str("locA")}

\* request.get_json()
JsonRequests == {None, Dict(EmptyDict), Dict([device_key |-> Str("dev1")])}

Dev1 == Dict([id |-> Str("dev1"), status |-> Str("ONLINE"), licenseKey |-> Str("lic1")])

\* what the upstream answers to a list-devices-at-location request
DeviceUpstream == {HttpResp(200, Dict([items |-> List(<<Dev1>>)])), HttpResp(500, Str("error"))}

\* the upstream's answers to the requests of one join, in the order they are made
Oracles == {<<u>> \o q : u \in LocationsUpstream, q \in [1..MaxItems -> DeviceUpstream]}

\* access-token arguments of a direct call
TokenArgs == {None, Str(""), Str("tokA"), Str("tokB")}

PageSizes == {IntV(page_size_default), IntV(join_page_size)}

PageMarkers == {None, Str("abc")}

NoRequest ==
    [sid |-> "", route |-> "", req |-> EmptyDict, resp |-> Text("", 0),
     net |-> <<>>, raised |-> <<>>, calls |-> <<>>]

NoCall ==
    [op |-> "", token |-> None, args |-> <<>>, out |-> Ret(None), net |-> <<>>, log |-> <<>>]

\* os.getenv('GOTO_CLIENT_ID') / os.getenv('GOTO_CLIENT_SECRET'): None when unset
EnvValues == {None, Str(""), Str("set")}

Configs == [GOTO_CLIENT_ID : EnvValues, GOTO_CLIENT_SECRET : EnvValues]

\* Config.validate(): the names of the required settings that are falsy
MissingVars(cfg) ==
    SelectSeq(<<"GOTO_CLIENT_ID", "GOTO_CLIENT_SECRET">>, LAMBDA var : ~Truthy(cfg[var]))

\* the mutant of validate that requires the client id only
validate_ignores_secret(cfg) ==
    IF ~Truthy(cfg["GOTO_CLIENT_ID"]) THEN Raise("ValueError", "GOTO_CLIENT_ID")
    ELSE Ret(BoolV(TRUE))

validate(cfg) ==
    IF MissingVars(cfg) /= <<>>
    THEN Raise("ValueError", IF Len(MissingVars(cfg)) = 2
                             THEN "GOTO_CLIENT_ID, GOTO_CLIENT_SECRET"
                             ELSE MissingVars(cfg)[1])
    ELSE Ret(BoolV(TRUE))

\* the position of the process in the __main__ block: app is whether
\* create_app() has returned, code the status of sys.exit
Proc(pc, app, code) == [pc |-> pc, app |-> app, code |-> code]

\* the application serving requests with a complete configuration
Init ==
    /\ session = [s \in Sessions |-> EmptyDict]
    /\ last = NoRequest
    /\ call = NoCall
    /\ config = [GOTO_CLIENT_ID |-> Str("set"), GOTO_CLIENT_SECRET |-> Str("set")]
    /\ proc = Proc("serving", TRUE, 0)

(***************************************************************************)
(* The web application: one request served to completion per step.         *)
(***************************************************************************)
\* the mutant of Serve that keeps the session in one place for all browsers
Serve_with_shared_session(s, route, req, h) ==
    /\ proc.pc = "serving"
    /\ session' = [t \in DOMAIN session |-> h.sess]
    /\ last' = [sid |-> s, route |-> route, req |-> req, resp |-> h.resp,
                net |-> h.net, raised |-> h.raised, calls |-> h.calls]
    /\ UNCHANGED <<call, config, proc>>

\* flask.session is the signed cookie of the browser that sent the request
Serve(s, route, req, h) ==
    /\ proc.pc = "serving"
    /\ session' = [session EXCEPT ![s] = h.sess]
    /\ last' = [sid |-> s, route |-> route, req |-> req, resp |-> h.resp,
                net |-> h.net, raised |-> h.raised, calls |-> h.calls]
    /\ UNCHANGED <<call, config, proc>>

Index(s) == Serve(s, "index", EmptyDict, index(session[s]))

Authenticate(s) ==
    \E state \in StateValues, built \in BOOLEAN :
        Serve(s, "authenticate", EmptyDict, authenticate(session[s], state, built))

AuthCallback(s) ==
    \E code \in Codes, state \in CallbackStates, error \in Errors, provider \in Provider :
        Serve(s, "auth_callback", [code |-> code, state |-> state, error |-> error],
              auth_callback(session[s], code, state, error, provider))

Logout(s) == Serve(s, "logout", EmptyDict, logout(session[s]))

Dashboard(s) ==
    \E method \in {"GET", "POST"}, form_key \in OptionalKeys, arg_key \in OptionalKeys :
        Serve(s, "dashboard",
              [method |-> method, form_account_key |-> form_key, account_key |-> arg_key],
              dashboard(session[s], method, form_key, arg_key))

Locations(s) ==
    \E arg_key \in OptionalKeys, upstream \in Upstream :
        Serve(s, "locations", [account_key |-> arg_key],
              locations(session[s], arg_key, upstream))

Devices(s) ==
    \E arg_key \in OptionalKeys, upstream \in Upstream :
        Serve(s, "devices", [account_key |-> arg_key],
              devices(session[s], arg_key, upstream))

DeviceLocations(s) ==
    \E oracle \in Oracles :
        Serve(s, "device_locations", EmptyDict, device_locations(session[s], oracle))

PhoneNumbers(s) ==
    \E upstream \in Upstream :
        Serve(s, "phone_numbers", EmptyDict, phone_numbers(session[s], upstream))

Extensions(s) ==
    \E upstream \in Upstream :
        Serve(s, "extensions", EmptyDict, extensions(session[s], upstream))

DeviceModels(s) ==
    \E upstream \in Upstream :
        Serve(s, "device_models", EmptyDict, device_models(session[s], upstream))

RebootDevice(s) ==
    \E device_id \in DeviceIds, upstream \in Upstream :
        Serve(s, "reboot_device", [device_id |-> device_id],
              reboot_device_view(session[s], device_id, upstream))

ResyncDevice(s) ==
    \E device_id \in DeviceIds, upstream \in Upstream :
        Serve(s, "resync_device", [device_id |-> device_id],
              resync_device_view(session[s], device_id, upstream))

LocationDetail(s) ==
    \E location_id \in LocationIds, upstream \in DeviceUpstream, upstream2 \in DeviceUpstream :
        Serve(s, "location_detail", [location_id |-> location_id],
              location_detail(session[s], location_id, upstream, upstream2))

ApiDeviceDetails(s) ==
    \E device_id \in DeviceIds, upstream \in Upstream :
        Serve(s, "api_device_details", [device_id |-> device_id],
              api_device_details(session[s], device_id, upstream))

DeviceDetails(s) ==
    \E device_key \in DeviceIds, upstream \in Upstream :
        Serve(s, "device_details", [device_key |-> device_key],
              device_details(session[s], device_key, upstream))

DeviceLocation(s) ==
    \E device_key \in DeviceIds, upstream \in Upstream :
        Serve(s, "device_location", [device_key |-> device_key],
              device_location(session[s], device_key, upstream))

PhoneNumberDetails(s) ==
    \E phone_number_id \in {Str("pn1")}, upstream \in Upstream :
        Serve(s, "phone_number_details", [phone_number_id |-> phone_number_id],
              phone_number_details(session[s], phone_number_id, upstream))

Favicon(s) == Serve(s, "favicon", EmptyDict, favicon(session[s]))

RebootDeviceApi(s) ==
    \E data \in JsonRequests, upstream \in Upstream :
        Serve(s, "reboot_device_api", [json |-> data],
              reboot_device_api(session[s], data, upstream))

ResyncDeviceApi(s) ==
    \E data \in JsonRequests, upstream \in Upstream :
        Serve(s, "resync_device_api", [json |-> data],
              resync_device_api(session[s], data, upstream))

DeviceManagement(s) ==
    \E upstream \in Upstream :
        Serve(s, "device_management", EmptyDict, device_management(session[s], upstream))

ExtensionDetails(s) ==
    \E extension_id \in {Str("ext1")} :
        Serve(s, "extension_details", [extension_id |-> extension_id],
              extension_details(session[s], extension_id))

DebugSession(s) ==
    \E debug \in BOOLEAN :
        Serve(s, "debug_session", EmptyDict, debug_session(session[s], debug))

Next ==
    \/ \E s \in DOMAIN session : Index(s)
    \/ \E s \in DOMAIN session : Authenticate(s)
    \/ \E s \in DOMAIN session : AuthCallback(s)
    \/ \E s \in DOMAIN session : Logout(s)
    \/ \E s \in DOMAIN session : Dashboard(s)
    \/ \E s \in DOMAIN session : Locations(s)
    \/ \E s \in DOMAIN session : Devices(s)
    \/ \E s \in DOMAIN session : DeviceLocations(s)
    \/ \E s \in DOMAIN session : PhoneNumbers(s)
    \/ \E s \in DOMAIN session : Extensions(s)
    \/ \E s \in DOMAIN session : DeviceModels(s)
    \/ \E s \in DOMAIN session : RebootDevice(s)
    \/ \E s \in DOMAIN session : ResyncDevice(s)
    \/ \E s \in DOMAIN session : LocationDetail(s)
    \/ \E s \in DOMAIN session : ApiDeviceDetails(s)
    \/ \E s \in DOMAIN session : DeviceDetails(s)
    \/ \E s \in DOMAIN session : DeviceLocation(s)
    \/ \E s \in DOMAIN session : PhoneNumberDetails(s)
    \/ \E s \in DOMAIN session : Favicon(s)
    \/ \E s \in DOMAIN session : RebootDeviceApi(s)
    \/ \E s \in DOMAIN session : ResyncDeviceApi(s)
    \/ \E s \in DOMAIN session : DeviceManagement(s)
    \/ \E s \in DOMAIN session : ExtensionDetails(s)
    \/ \E s \in DOMAIN session : DebugSession(s)

Spec == Init /\ [][Next]_vars

(***************************************************************************)
(* The service objects called directly: one method call per step.          *)
(***************************************************************************)
CallRec(op, access_token, args, r) ==
    [op |-> op, token |-> access_token, args |-> args,
     out |-> r.out, net |-> r.net, log |-> r.log]

CallGetAccountInfo ==
    \E k \in AccountKeys, tk \in TokenArgs, u \in Upstream :
        /\ call' = CallRec("get_account_info", tk, <<k>>, get_account_info(k, tk, u))
        /\ UNCHANGED <<session, last, config, proc>>

CallGetLocations ==
    \E k \in AccountKeys, tk \in TokenArgs, ps \in PageSizes, pm \in PageMarkers, u \in Upstream :
        /\ call' = CallRec("get_locations", tk, <<k, ps, pm>>, get_locations(k, tk, ps, pm, u))
        /\ UNCHANGED <<session, last, config, proc>>

CallGetDevices ==
    \E k \in AccountKeys, tk \in TokenArgs, ps \in PageSizes, pm \in PageMarkers, u \in Upstream :
        /\ call' = CallRec("get_devices", tk, <<k, ps, pm>>, get_devices(k, tk, ps, pm, u))
        /\ UNCHANGED <<session, last, config, proc>>

CallGetDeviceDetails ==
    \E id \in DeviceIds, tk \in TokenArgs, u \in Upstream :
        /\ call' = CallRec("get_device_details", tk, <<id>>, get_device_details(id, tk, u))
        /\ UNCHANGED <<session, last, config, proc>>

CallGetLocationDevices ==
    \E id \in LocationIds, ps \in PageSizes, pm \in PageMarkers, u \in Upstream :
        /\ call' = CallRec("get_location_devices", Missing, <<id, ps, pm>>,
                          get_location_devices(id, ps, pm, u))
        /\ UNCHANGED <<session, last, config, proc>>

CallGetLocationUsers ==
    \E id \in LocationIds, ps \in PageSizes, pm \in PageMarkers, u \in Upstream :
        /\ call' = CallRec("get_location_users", Missing, <<id, ps, pm>>,
                          get_location_users(id, ps, pm, u))
        /\ UNCHANGED <<session, last, config, proc>>

CallGetExtensions ==
    \E k \in AccountKeys, tk \in TokenArgs, ps \in PageSizes, pm \in PageMarkers, u \in Upstream :
        /\ call' = CallRec("get_extensions", tk, <<k, ps, pm>>, get_extensions(k, tk, ps, pm, u))
        /\ UNCHANGED <<session, last, config, proc>>

CallSearchDevicesByLocation ==
    \E k \in AccountKeys, tk \in TokenArgs, oracle \in Oracles :
        /\ call' = CallRec("search_devices_by_location", tk, <<k, oracle>>,
                          search_devices_by_location(k, tk, oracle))
        /\ UNCHANGED <<session, last, config, proc>>

CallGetPhoneNumbers ==
    \E k \in AccountKeys, tk \in TokenArgs, ps \in PageSizes, pm \in PageMarkers, u \in Upstream :
        /\ call' = CallRec("get_phone_numbers", tk, <<k, ps, pm>>, get_phone_numbers(k, tk, ps, pm, u))
        /\ UNCHANGED <<session, last, config, proc>>

CallGetPhoneNumberDetails ==
    \E id \in {Str("pn1")}, tk \in TokenArgs, u \in Upstream :
        /\ call' = CallRec("get_phone_number_details", tk, <<id>>, get_phone_number_details(id, tk, u))
        /\ UNCHANGED <<session, last, config, proc>>

CallGetDeviceModels ==
    \E tk \in TokenArgs, ps \in PageSizes, pm \in PageMarkers, u \in Upstream :
        /\ call' = CallRec("get_device_models", tk, <<ps, pm>>, get_device_models(tk, ps, pm, u))
        /\ UNCHANGED <<session, last, config, proc>>

CallGetDeviceButtonConfiguration ==
    \E id \in DeviceIds, tk \in TokenArgs, u \in Upstream :
        /\ call' = CallRec("get_device_button_configuration", tk, <<id>>,
                          get_device_button_configuration(id, tk, u))
        /\ UNCHANGED <<session, last, config, proc>>

CallRebootDevice ==
    \E id \in DeviceIds, tk \in TokenArgs, u \in Upstream :
        /\ call' = CallRec("reboot_device", tk, <<id>>, reboot_device(id, tk, u))
        /\ UNCHANGED <<session, last, config, proc>>

CallResyncDevice ==
    \E id \in DeviceIds, tk \in TokenArgs, u \in Upstream :
        /\ call' = CallRec("resync_device", tk, <<id>>, resync_device(id, tk, u))
        /\ UNCHANGED <<session, last, config, proc>>

CallGetExtensionDetails ==
    \E id \in {Str("ext1")}, tk \in TokenArgs, u \in Upstream :
        /\ call' = CallRec("get_extension_details", tk, <<id>>, get_extension_details(id, tk, u))
        /\ UNCHANGED <<session, last, config, proc>>

CallGetAuthorizationUrl ==
    \E state \in {None} \cup StateValues, generated \in StateValues, built \in BOOLEAN :
        /\ call' = CallRec("get_authorization_url", None, <<state>>,
                          Outcome(get_authorization_url(state, generated, built), <<>>, <<>>))
        /\ UNCHANGED <<session, last, config, proc>>

\* complete_login after a begin_login that issued the state "issued"
CallExchangeCodeForToken ==
    \E issued \in StateValues, code \in Codes \ {None}, state \in CallbackStates,
       provider \in Provider :
        LET begun == get_authorization_url(issued, issued, TRUE)
        IN /\ call' = CallRec("exchange_code_for_token", None,
                              <<code, state, provider, begun.val[2]>>,
                              Outcome(exchange_code_for_token(code, state, provider), <<>>, <<>>))
           /\ UNCHANGED <<session, last, config, proc>>

CallRefreshAccessToken ==
    \E refresh_token \in {Str("refA"), Str("refB")}, provider \in Provider :
        /\ call' = CallRec("refresh_access_token", None, <<refresh_token, provider>>,
                          Outcome(refresh_access_token(refresh_token, provider), <<>>, <<>>))
        /\ UNCHANGED <<session, last, config, proc>>

CallIsTokenValid ==
    \E token \in {None, Dict(EmptyDict), Dict([refresh_token |-> Str("refA")]),
                   Dict([access_token |-> Str("")])} \cup Tokens,
       u \in Upstream :
        /\ call' = CallRec("is_token_valid", token, <<>>, is_token_valid(token, u))
        /\ UNCHANGED <<session, last, config, proc>>

NextService ==
    \/ CallGetAccountInfo
    \/ CallGetLocations
    \/ CallGetDevices
    \/ CallGetDeviceDetails
    \/ CallGetLocationDevices
    \/ CallGetLocationUsers
    \/ CallGetExtensions
    \/ CallSearchDevicesByLocation
    \/ CallGetPhoneNumbers
    \/ CallGetPhoneNumberDetails
    \/ CallGetDeviceModels
    \/ CallGetDeviceButtonConfiguration
    \/ CallRebootDevice
    \/ CallResyncDevice
    \/ CallGetExtensionDetails
    \/ CallGetAuthorizationUrl
    \/ CallExchangeCodeForToken
    \/ CallRefreshAccessToken
    \/ CallIsTokenValid

SpecService == Init /\ [][NextService]_vars

(***************************************************************************)
(* The login flow alone: the three login routes of one session next to     *)
(* direct calls of the AuthService methods they rest on.                   *)
(***************************************************************************)
NextLogin ==
    \/ \E s \in DOMAIN session : Authenticate(s)
    \/ \E s \in DOMAIN session : AuthCallback(s)
    \/ \E s \in DOMAIN session : Logout(s)
    \/ CallGetAuthorizationUrl
    \/ CallExchangeCodeForToken
    \/ CallRefreshAccessToken

SpecLogin == Init /\ [][NextLogin]_vars

(***************************************************************************)
(* Process start: python app.py runs the __main__ block, then the routes   *)
(* are served.                                                             *)
(***************************************************************************)
InitStartup ==
    /\ session = [s \in Sessions |-> EmptyDict]
    /\ last = NoRequest
    /\ call = NoCall
    /\ config \in Configs
    /\ proc = Proc("main", FALSE, 0)

\* Config.validate(); except ValueError: sys.exit(1)
Validate ==
    /\ proc.pc = "main"
    /\ proc' = IF validate(config).tag = "raise"
               THEN Proc("exited", FALSE, 1)
               ELSE Proc("validated", FALSE, 0)
    /\ UNCHANGED <<session, last, call, config>>

\* app = create_app()
CreateApp ==
    /\ proc.pc = "validated"
    /\ proc' = Proc("created", TRUE, 0)
    /\ UNCHANGED <<session, last, call, config>>

\* app.run(host='0.0.0.0', port=Config.PORT, debug=Config.DEBUG); bound is FALSE when
\* the server cannot start (except Exception: sys.exit(1))
Run ==
    \E bound \in BOOLEAN :
        /\ proc.pc = "created"
        /\ proc' = IF bound THEN Proc("serving", TRUE, 0) ELSE Proc("exited", TRUE, 1)
        /\ UNCHANGED <<session, last, call, config>>

NextStartup ==
    \/ Validate
    \/ CreateApp
    \/ Run
    \/ \E s \in DOMAIN session : Index(s)
    \/ \E s \in DOMAIN session : Authenticate(s)
    \/ \E s \in DOMAIN session : AuthCallback(s)
    \/ \E s \in DOMAIN session : Logout(s)

SpecStartup == InitStartup /\ [][NextStartup]_vars

(***************************************************************************)
(* Two browsers: each request is served to completion for the session of   *)
(* its cookie, the requests of the two sessions in any order.              *)
(***************************************************************************)
TwoSessions == {"s1", "s2"}

InitSessions ==
    /\ session = [s \in TwoSessions |-> EmptyDict]
    /\ last = NoRequest
    /\ call = NoCall
    /\ config = [GOTO_CLIENT_ID |-> Str("set"), GOTO_CLIENT_SECRET |-> Str("set")]
    /\ proc = Proc("serving", TRUE, 0)

NextSessions ==
    \/ \E s \in DOMAIN session : Authenticate(s)
    \/ \E s \in DOMAIN session : AuthCallback(s)
    \/ \E s \in DOMAIN session : Logout(s)
    \/ \E s \in DOMAIN session : Locations(s)

SpecSessions == InitSessions /\ [][NextSessions]_vars

(***************************************************************************)
(* Vocabulary of the properties.                                           *)
(***************************************************************************)
\* the routes that call the API client or show account data
AuthOnlyRoutes ==
    {"dashboard", "locations", "devices", "device_locations", "phone_numbers", "extensions",
     "device_models", "reboot_device", "resync_device", "location_detail",
     "api_device_details", "device_details", "device_location", "phone_number_details",
     "reboot_device_api", "resync_device_api", "device_management", "extension_details"}

\* the operations of the table of section 4.2
TableOps ==
    {"get_locations", "get_devices", "get_device_details", "get_location_devices",
     "get_location_users", "get_extensions", "get_phone_numbers", "get_phone_number_details",
     "get_device_models", "get_device_button_configuration", "reboot_device", "resync_device",
     "get_extension_details"}

\* the response tells the caller it is not authenticated
RejectedAsUnauthenticated(resp) ==
    \/ resp.kind = "redirect" /\ resp.to = "index"
    \/ resp.kind = "json" /\ Get(resp.data.d, "message") = Str("Not authenticated")
    \/ resp.kind = "json" /\ Get(resp.data.d, "error") = Str("Not authenticated")

\* the callback request of last in session s passed every check and its exchange succeeded
GoodCallback(s, before, rq) ==
    /\ rq.sid = s
    /\ rq.route = "auth_callback"
    /\ ~Truthy(rq.req.error)
    /\ Truthy(rq.req.code)
    /\ Truthy(Get(before, "oauth_state"))
    /\ rq.req.state = Get(before, "oauth_state")
    /\ Len(rq.calls) = 1
    /\ rq.calls[1].op = "exchange_code_for_token"
    /\ rq.calls[1].out.tag = "ret"

(***************************************************************************)
(* C1: a session gets a Token only through a /auth/callback with no error  *)
(* parameter, with a code, with a state equal to the non-empty oauth_state  *)
(* that an /authenticate stored in that session, and whose exchange         *)
(* succeeds; any other callback stores no Token.                            *)
(***************************************************************************)
C1_TokenOnlyByGoodCallback ==
    [][\A s \in DOMAIN session :
          LET before == session[s]
              after  == session'[s]
          IN /\ (HasKey(after, "access_token")
                   /\ Get(after, "access_token") /= Get(before, "access_token"))
                  => /\ GoodCallback(s, before, last')
                     /\ after["access_token"] = last'.calls[1].out.val
             /\ (last'.sid = s /\ last'.route = "auth_callback"
                   /\ ~GoodCallback(s, before, last'))
                  => Get(after, "access_token") = Get(before, "access_token")
             /\ (HasKey(after, "oauth_state")
                   /\ Get(after, "oauth_state") /= Get(before, "oauth_state"))
                  => last'.sid = s /\ last'.route = "authenticate"]_vars

C1_Witness ==
    /\ last.route = "auth_callback"
    /\ last.resp.to = "dashboard"
    /\ last.req.state \in StateValues
    /\ Get(session[last.sid], "access_token") \in Tokens

C3_LogoutThenRejected ==
    [][\A s \in DOMAIN session :
          /\ (last'.sid = s /\ last'.route = "logout")
               => {"access_token", "account_key", "oauth_state"} \cap DOMAIN session'[s] = {}
          /\ (~HasKey(session[s], "access_token")
                /\ ~(last'.sid = s /\ last'.route = "auth_callback"))
               => ~HasKey(session'[s], "access_token")
          /\ (~HasKey(session[s], "access_token")
                /\ last'.sid = s /\ last'.route \in AuthOnlyRoutes)
               => /\ RejectedAsUnauthenticated(last'.resp)
                  /\ last'.net = <<>>
                  /\ last'.calls = <<>>
                  /\ session'[s] = session[s]]_vars

C3_Witness ==
    /\ last.route = "logout"
    /\ DOMAIN session[last.sid] = {}

(***************************************************************************)
(* C4 as stated: every operation of the table of section 4.2, called with  *)
(* an empty or absent access token, returns None and sends no request.     *)
(***************************************************************************)
C4_NoTokenGivesNone ==
    (call.op \in TableOps /\ call.token \in {None, Str(""), Missing})
        => call.out = Ret(None) /\ call.net = <<>>

(***************************************************************************)
(* C5 as stated: no API client operation raises; a response other than 200 *)
(* and a transport failure are returned as None.                           *)
(***************************************************************************)
C5_FailuresAreNone ==
    call.op \in TableOps
        => /\ call.out.tag = "ret"
           /\ (call.net /= <<>>
                 /\ ~(call.net[1].resp.kind = "http" /\ call.net[1].resp.status = 200))
                => call.out.val = None

(***************************************************************************)
(* C6: an upstream HTTP 200 response with a JSON body gives exactly that   *)
(* parsed body, unchanged, as the operation's result.                      *)
(***************************************************************************)
C6_OkGivesBody ==
    (call.op \in TableOps \cup {"get_account_info"}
       /\ call.net /= <<>>
       /\ call.net[1].resp.kind = "http"
       /\ call.net[1].resp.status = 200
       /\ call.net[1].resp.body /= InvalidJson)
        => call.out = Ret(call.net[1].resp.body)

C6_Witness ==
    /\ call.op = "get_locations"
    /\ call.net /= <<>>
    /\ call.net[1].resp = HttpResp(200, PagedBody)
    /\ call.out.val = PagedBody

\* the (location id, location name, device id) of each record of a join result
JoinTags(records) ==
    [n \in 1..Len(records) |->
        <<records[n].d["location_id"], records[n].d["location_name"], records[n].d["device_id"]>>]

\* the upstream answered 200 with a JSON object that has items
HasItems(up) ==
    /\ up.kind = "http"
    /\ up.status = 200
    /\ IsDict(up.body)
    /\ HasKey(up.body.d, "items")

\* the tags C7 expects: the devices of every location whose fetch succeeded, in order
RECURSIVE ClaimedJoin(_, _, _)
ClaimedJoin(locs, i, oracle) ==
    IF i > Len(locs) THEN <<>>
    ELSE LET up  == oracle[i + 1]
             loc == locs[i]
             own == IF HasItems(up)
                    THEN [n \in 1..Len(up.body.d["items"].l) |->
                            <<Get(loc.d, "id"), GetOr(loc.d, "name", Str("Unknown Location")),
                              Get(up.body.d["items"].l[n].d, "id")>>]
                    ELSE <<>>
         IN own \o ClaimedJoin(locs, i + 1, oracle)

(***************************************************************************)
(* C7 as stated: search_devices_by_location never raises; a location whose *)
(* device fetch fails contributes no record, the other locations' devices  *)
(* are returned tagged with their location; a failed location-list fetch   *)
(* gives an empty result.                                                  *)
(***************************************************************************)
C7_JoinDegrades ==
    (call.op = "search_devices_by_location" /\ Truthy(call.token))
        => /\ call.out.tag = "ret"
           /\ IF HasItems(call.args[2][1])
              THEN JoinTags(call.out.val.l)
                     = ClaimedJoin(call.args[2][1].body.d["items"].l, 1, call.args[2])
              ELSE call.out.val = List(<<>>)

(***************************************************************************)
(* C8 as stated: every request the API client sends upstream was made with *)
(* a non-empty access token string.                                        *)
(***************************************************************************)
C8_RequestsCarryTokenString ==
    \A i \in 1..Len(last.net) :
        /\ last.net[i].req.token.t = "str"
        /\ last.net[i].req.token.s /= ""

(***************************************************************************)
(* C9 as stated: when /locations or /devices is given an account_key URL   *)
(* parameter, that value is used for the upstream call and is the          *)
(* AccountKey of the session afterwards.                                   *)
(***************************************************************************)
C9_UrlKeyWins ==
    (last.route \in {"locations", "devices"}
       /\ Truthy(last.req.account_key)
       /\ last.calls /= <<>>)
        => /\ last.calls[1].account_key = last.req.account_key
           /\ Get(session[last.sid], "account_key") = last.req.account_key

\* the routes that may write the session
SessionWriters == {"authenticate", "auth_callback", "logout", "dashboard", "locations", "devices"}

(***************************************************************************)
(* C10: the Token of a session is set only by a successful /auth/callback  *)
(* of that session and removed only by its /logout; the routes that only   *)
(* call the API client leave the whole session as it was, and /locations   *)
(* and /devices leave Token and oauth_state as they were, whatever the     *)
(* upstream answers.                                                       *)
(***************************************************************************)
C10_TokenFrame ==
    [][\A s \in DOMAIN session :
          LET before == session[s]
              after  == session'[s]
          IN /\ Get(after, "access_token") /= Get(before, "access_token")
                  => /\ last'.sid = s
                     /\ \/ /\ last'.route = "auth_callback"
                           /\ last'.resp.to = "dashboard"
                           /\ HasKey(after, "access_token")
                        \/ /\ last'.route = "logout"
                           /\ ~HasKey(after, "access_token")
             /\ last'.route \notin SessionWriters => after = before
             /\ last'.route \in {"locations", "devices"}
                  => /\ Get(after, "access_token") = Get(before, "access_token")
                     /\ Get(after, "oauth_state") = Get(before, "oauth_state")
                     /\ HasKey(after, "access_token") = HasKey(before, "access_token")]_vars

C10_Witness ==
    /\ last.route = "locations"
    /\ last.net /= <<>>
    /\ last.net[1].resp.kind = "http"
    /\ last.net[1].resp.status = 401
    /\ Get(session[last.sid], "access_token") \in Tokens

\* the routes that list the resources of an account
AccountScopedRoutes ==
    {"locations", "devices", "extensions", "phone_numbers", "device_management",
     "device_locations"}

\* v is a non-empty string
NonEmptyStr(v) == v.t = "str" /\ v.s /= ""

\* the account key the request rq brings to a session holding sess, None when none does
SuppliedKey(sess, rq) ==
    IF rq.route \in {"locations", "devices"}
    THEN Or(Get(sess, "account_key"), rq.req.account_key)
    ELSE Get(sess, "account_key")

(***************************************************************************)
(* C11: an account-scoped list route never calls the API client, and never *)
(* sends a request, with an empty or absent account key; when neither the  *)
(* session nor (for /locations and /devices) the URL supplies one, the     *)
(* handler calls nothing and redirects to the dashboard (to the index page *)
(* when the session is not authenticated at all).                          *)
(***************************************************************************)
C11_NoListWithoutAccountKey ==
    [][\A s \in DOMAIN session :
          (last'.sid = s /\ last'.route \in AccountScopedRoutes)
            => /\ \A i \in 1..Len(last'.calls) : NonEmptyStr(last'.calls[i].account_key)
               /\ \A i \in 1..Len(last'.net) :
                     HasKey(last'.net[i].req.params.d, "accountKey")
                       => NonEmptyStr(last'.net[i].req.params.d["accountKey"])
               /\ ~Truthy(SuppliedKey(session[s], last'))
                    => /\ last'.calls = <<>>
                       /\ last'.net = <<>>
                       /\ last'.resp.kind = "redirect"
                       /\ last'.resp.to = IF is_authenticated(session[s])
                                          THEN "dashboard" ELSE "index"
                       /\ session'[s] = session[s]]_vars

\* an authenticated session without account key asked for /locations?account_key=
C11_Witness ==
    /\ last.route = "locations"
    /\ last.req.account_key = Str("")
    /\ is_authenticated(session[last.sid])
    /\ ~HasKey(session[last.sid], "account_key")
    /\ last.resp.to = "dashboard"
    /\ last.calls = <<>>

\* what the identity provider did in the direct call c
ProviderOf(c) == IF c.op = "exchange_code_for_token" THEN c.args[3] ELSE c.args[2]

(***************************************************************************)
(* C12: exchange_code_for_token and refresh_access_token return the Token  *)
(* the identity provider issued, or raise AuthenticationError carrying the *)
(* provider's failure; they return no absent value and raise nothing else; *)
(* and an /auth/callback whose exchange raises leaves the session as it    *)
(* was, so it stores no Token.                                             *)
(***************************************************************************)
C12_TokenOrAuthenticationError ==
    [][/\ call'.op \in {"exchange_code_for_token", "refresh_access_token"}
            => IF ProviderOf(call').kind = "token"
               THEN /\ call'.out = Ret(ProviderOf(call').token)
                    /\ call'.out.val /= None
               ELSE call'.out = Raise("AuthenticationError", ProviderOf(call').exc)
       /\ \A s \in DOMAIN session :
             (last'.sid = s /\ last'.route = "auth_callback" /\ last'.calls /= <<>>
                /\ last'.calls[1].out.tag = "raise")
               => /\ last'.calls[1].out.exc = "AuthenticationError"
                  /\ session'[s] = session[s]
                  /\ Get(session'[s], "access_token") = Get(session[s], "access_token")
                  /\ last'.resp.kind = "redirect"
                  /\ last'.resp.to = "index"]_vars

\* a refresh that failed at the provider, after a callback whose exchange failed
C12_Witness ==
    /\ call.op = "refresh_access_token"
    /\ call.out.tag = "raise"
    /\ call.out.cause = "InvalidGrantError"
    /\ last.route = "auth_callback"
    /\ last.calls /= <<>>
    /\ last.calls[1].out.tag = "raise"
    /\ ~HasKey(session[last.sid], "access_token")
    /\ HasKey(session[last.sid], "oauth_state")

\* the token structure tk is empty or has no access_token entry
LacksAccessToken(tk) == ~Truthy(tk) \/ ~IsDict(tk) \/ ~HasKey(tk.d, "access_token")

(***************************************************************************)
(* C13: is_token_valid never raises; for a token that is empty or has no   *)
(* access_token it returns False and sends nothing; for any other token it *)
(* sends exactly one GET probe and returns True exactly when that probe is *)
(* answered with status 200, and False for any other status and for a      *)
(* network failure.                                                        *)
(***************************************************************************)
C13_ValidIffProbe200 ==
    call.op = "is_token_valid"
        => /\ call.out.tag = "ret"
           /\ IF LacksAccessToken(call.token)
              THEN call.out.val = BoolV(FALSE) /\ call.net = <<>>
              ELSE /\ Len(call.net) = 1
                   /\ call.net[1].req.method = "GET"
                   /\ call.net[1].req.token = call.token.d["access_token"]
                   /\ call.out.val = BoolV(call.net[1].resp.kind = "http"
                                             /\ call.net[1].resp.status = 200)

\* a probe with a well-formed token that the upstream answered with 401
C13_Witness ==
    /\ call.op = "is_token_valid"
    /\ call.token = TokenA
    /\ Len(call.net) = 1
    /\ call.net[1].resp.kind = "http"
    /\ call.net[1].resp.status = 401
    /\ call.out = Ret(BoolV(FALSE))

\* the response of a callback rejected for its state
StateMismatch(resp) ==
    /\ resp.kind = "redirect"
    /\ resp.to = "index"
    /\ resp.flash = <<"error", "Authentication failed due to state mismatch. Please try again.">>

(***************************************************************************)
(* C14: a successful /auth/callback removes oauth_state from its session;  *)
(* the session stays without oauth_state until an /authenticate of that    *)
(* session; and while it has none, every callback that brings a code and   *)
(* no error, whatever its state, is rejected as a state mismatch, calls no *)
(* exchange and leaves the session (so its Token) as it was.               *)
(***************************************************************************)
C14_StateConsumed ==
    [][\A s \in DOMAIN session :
          /\ (last'.sid = s /\ last'.route = "auth_callback" /\ last'.resp.to = "dashboard")
               => /\ HasKey(session[s], "oauth_state")
                  /\ ~HasKey(session'[s], "oauth_state")
          /\ (~HasKey(session[s], "oauth_state")
                /\ ~(last'.sid = s /\ last'.route = "authenticate"))
               => ~HasKey(session'[s], "oauth_state")
          /\ (~HasKey(session[s], "oauth_state")
                /\ last'.sid = s /\ last'.route = "auth_callback")
               => /\ session'[s] = session[s]
                  /\ last'.calls = <<>>
                  /\ (Truthy(last'.req.code) /\ ~Truthy(last'.req.error))
                       => StateMismatch(last'.resp)]_vars

\* a callback with code and state arriving after the login of its session succeeded
C14_Witness ==
    /\ last.route = "auth_callback"
    /\ last.req.state \in StateValues
    /\ Truthy(last.req.code)
    /\ ~Truthy(last.req.error)
    /\ StateMismatch(last.resp)
    /\ Get(session[last.sid], "access_token") \in Tokens
    /\ ~HasKey(session[last.sid], "oauth_state")

Logged(log, v) ==
    \E j \in 1..Len(log) : \E k \in 1..Len(log[j].fields) : log[j].fields[k] = v

\* the operations of GoToAPIService
ApiClientOps == TableOps \cup {"get_account_info", "search_devices_by_location"}

\* the exchanges of the API client call c that the upstream answered with one of statuses
AnsweredWith(c, statuses) ==
    IF c.op \in ApiClientOps
    THEN {i \in 1..Len(c.net) : c.net[i].resp.kind = "http" /\ c.net[i].resp.status \in statuses}
    ELSE {}

HasCredentials(cfg) == Truthy(cfg["GOTO_CLIENT_ID"]) /\ Truthy(cfg["GOTO_CLIENT_SECRET"])

(***************************************************************************)
(* C17: when the client id or the client secret is missing or empty, the   *)
(* process never creates the app, never serves a request and leaves the    *)
(* __main__ block only by exiting with status 1 straight from              *)
(* Config.validate.                                                        *)
(***************************************************************************)
C17_NoStartWithoutCredentials ==
    [][~HasCredentials(config)
         => /\ ~proc'.app
            /\ proc'.pc \in {"main", "exited"}
            /\ proc'.pc = "exited" => proc'.code = 1
            /\ last' = NoRequest
            /\ config' = config]_vars

\* start-up was aborted for an empty client secret
C17_Witness ==
    /\ config["GOTO_CLIENT_ID"] = Str("set")
    /\ config["GOTO_CLIENT_SECRET"] = Str("")
    /\ proc = Proc("exited", FALSE, 1)

\* the operations that stand for one upstream request
SingleCallOps == TableOps \cup {"get_account_info"}

(***************************************************************************)
(* C18: one invocation of a single-call API client operation sends at most *)
(* one request, and that one to the voice-admin API (never to the token    *)
(* endpoint); when the request fails (a status other than 200, or a        *)
(* transport failure) the operation returns None after that one request.   *)
(***************************************************************************)
C18_AtMostOneRequest ==
    call.op \in SingleCallOps
        => /\ Len(call.net) <= 1
           /\ \A i \in 1..Len(call.net) : call.net[i].req.url[1] = base_url
           /\ (call.net /= <<>>
                 /\ ~(call.net[1].resp.kind = "http" /\ call.net[1].resp.status = 200))
                => call.out = Ret(None)

\* a list-locations call answered with 401: one request, no result
C18_Witness ==
    /\ call.op = "get_locations"
    /\ Len(call.net) = 1
    /\ call.net[1].resp.kind = "http"
    /\ call.net[1].resp.status = 401
    /\ call.net[1].req.token = Str("tokA")
    /\ call.out = Ret(None)

\* the access tokens a request served for a session holding sess may present
OwnTokens(sess) ==
    IF is_authenticated(sess)
    THEN {sess["access_token"], sess["access_token"].d["access_token"]}
    ELSE {}

(***************************************************************************)
(* C19: a request served for one session leaves every other session as it  *)
(* was, whatever the order of the requests; the access token it sends      *)
(* upstream is its own session's, the account key it uses is its own       *)
(* session's or its own URL's, and its callback is accepted only against   *)
(* its own session's oauth_state.                                          *)
(***************************************************************************)
C19_SessionsConfined ==
    [][\A s \in DOMAIN session :
          /\ last'.sid /= s => session'[s] = session[s]
          /\ last'.sid = s
               => /\ \A i \in 1..Len(last'.net) :
                        last'.net[i].req.token \in OwnTokens(session[s])
                  /\ \A i \in 1..Len(last'.calls) :
                        last'.calls[i].account_key
                          \in {None, Get(session[s], "account_key"),
                               IF last'.route \in {"locations", "devices"}
                               THEN last'.req.account_key ELSE None}
                  /\ (last'.route = "auth_callback" /\ last'.resp.to = "dashboard")
                       => last'.req.state = Get(session[s], "oauth_state")
                  /\ (last'.route = "authenticate" /\ HasKey(session'[s], "oauth_state"))
                       => \A t \in DOMAIN session \ {s} :
                             Get(session'[t], "oauth_state") = Get(session[t], "oauth_state")]_vars

\* a list-locations request of one session while the other session holds another
\* Token, another account key and a pending oauth_state
C19_Witness ==
    \E s, t \in DOMAIN session :
        /\ s /= t
        /\ last.sid = s
        /\ last.route = "locations"
        /\ last.net /= <<>>
        /\ Get(session[s], "access_token") = TokenA
        /\ Get(session[t], "access_token") = TokenB
        /\ Get(session[s], "account_key") = Str("acctA")
        /\ Get(session[t], "account_key") = Str("acctB")
        /\ last.net[1].req.token = Str("tokA")

(***************************************************************************)
(* C20: a route other than /, /authenticate, /auth/callback, /logout,      *)
(* /favicon.ico and /debug/session sends an upstream request, and calls    *)
(* the API client, only for a session that holds a Token dict with an      *)
(* access_token entry; for any other session it answers with a redirect to *)
(* the index page or a "Not authenticated" JSON response.                  *)
(***************************************************************************)
C20_NoRequestWithoutToken ==
    [][\A s \in DOMAIN session :
          (last'.sid = s /\ last'.route \in AuthOnlyRoutes)
            => /\ (last'.net /= <<>> \/ last'.calls /= <<>>)
                    => /\ HasKey(session[s], "access_token")
                       /\ IsDict(session[s]["access_token"])
                       /\ HasKey(session[s]["access_token"].d, "access_token")
               /\ ~is_authenticated(session[s])
                    => /\ RejectedAsUnauthenticated(last'.resp)
                       /\ last'.net = <<>>
                       /\ last'.calls = <<>>]_vars

\* /api/device/<id> asked by a session that never logged in: 401 Not authenticated
C20_Witness ==
    /\ last.route = "api_device_details"
    /\ last.resp.status = 401
    /\ last.resp.data = Dict([error |-> Str("Not authenticated")])
    /\ last.net = <<>>
    /\ ~HasKey(session[last.sid], "access_token")

\* the API client calls among the calls a handler made
ClientCalls(calls) == SelectSeq(calls, LAMBDA c : c.op /= "exchange_code_for_token")

(***************************************************************************)
(* C21 as stated: every API client call a route handler makes is given the *)
(* access_token string held inside the session Token (not the Token, not   *)
(* nothing), and every upstream request of the handler carries the header  *)
(* Authorization: Bearer followed by exactly that string.                  *)
(***************************************************************************)
C21_HandlersPassTokenString ==
    (last.route \in AuthOnlyRoutes /\ (last.calls /= <<>> \/ last.net /= <<>>))
        => LET held == session[last.sid]["access_token"].d["access_token"]
           IN /\ \A i \in 1..Len(ClientCalls(last.calls)) :
                    ClientCalls(last.calls)[i].token = held
              /\ \A i \in 1..Len(last.net) :
                    last.net[i].req.headers.Authorization = <<"Bearer", held.s>>

\* the request rq is a GET of the path endpoint under base_url with page size 100
\* and no page marker
IsJoinRequest(rq, endpoint) ==
    /\ rq.method = "GET"
    /\ rq.url = <<base_url>> \o endpoint
    /\ Get(rq.params.d, "pageSize") = IntV(100)
    /\ ~HasKey(rq.params.d, "pageMarker")

(***************************************************************************)
(* C22 as stated: search_devices_by_location sends one list-locations      *)
(* request with page size 100, then one list-devices-at-location request   *)
(* with page size 100 for each location, in the order the locations were   *)
(* returned, and nothing else; its result holds one record per (location,  *)
(* device) pair in location order then device order.                       *)
(***************************************************************************)
C22_JoinFanOut ==
    (call.op = "search_devices_by_location" /\ Truthy(call.token) /\ HasItems(call.args[2][1]))
        => LET locs == call.args[2][1].body.d["items"].l
           IN /\ Len(call.net) = 1 + Len(locs)
              /\ IsJoinRequest(call.net[1].req, <<"locations">>)
              /\ \A i \in 1..Len(locs) :
                    /\ IsJoinRequest(call.net[i + 1].req,
                                     <<"locations", Fmt(Get(locs[i].d, "id")), "devices">>)
                    /\ call.net[i + 1].resp = call.args[2][i + 1]
              /\ call.out.tag = "ret"
              /\ JoinTags(call.out.val.l) = ClaimedJoin(locs, 1, call.args[2])

(***************************************************************************)
(* C23: an /auth/callback that fails (error parameter, no code, state      *)
(* mismatch, or the exchange raising) redirects to the index page and      *)
(* leaves the whole session, so Token, AccountKey and oauth_state, as it   *)
(* was; a callback that passes the checks against that unchanged           *)
(* oauth_state and whose exchange succeeds still stores its Token.         *)
(***************************************************************************)
C23_FailedCallbackFrame ==
    [][\A s \in DOMAIN session :
          (last'.sid = s /\ last'.route = "auth_callback")
            => IF GoodCallback(s, session[s], last')
               THEN /\ session'[s]["access_token"] = last'.calls[1].out.val
                    /\ last'.resp.to = "dashboard"
               ELSE /\ session'[s] = session[s]
                    /\ last'.resp.kind = "redirect"
                    /\ last'.resp.to = "index"
                    /\ (Truthy(last'.req.code) /\ ~Truthy(last'.req.error)
                          /\ last'.req.state = Get(session[s], "oauth_state")
                          /\ Truthy(last'.req.state))
                         => /\ Len(last'.calls) = 1
                            /\ last'.calls[1].out.exc = "AuthenticationError"]_vars

\* the exchange failed for a session that holds a Token, an account key and the
\* oauth_state of a second login attempt: all three are still there
C23_Witness ==
    /\ last.route = "auth_callback"
    /\ last.calls /= <<>>
    /\ last.calls[1].out.tag = "raise"
    /\ Get(session[last.sid], "access_token") \in Tokens
    /\ Get(session[last.sid], "account_key") \in AccountKeys
    /\ Get(session[last.sid], "oauth_state") = last.req.state

(***************************************************************************)
(* C24: the session holds one oauth_state, the one of its latest           *)
(* /authenticate: an /authenticate that starts a login stores the state it *)
(* sends the browser to the provider with in place of the state of an      *)
(* earlier attempt; a callback succeeds only with the state stored, and a  *)
(* callback with a code and any other state, the earlier attempt's         *)
(* included, is rejected as a state mismatch and stores no Token.          *)
(***************************************************************************)
C24_LatestStateOnly ==
    [][\A s \in DOMAIN session :
          /\ (last'.sid = s /\ last'.route = "authenticate" /\ last'.resp.to /= "index")
               => \E st \in StateValues :
                     /\ last'.resp.to = AuthorizeUrl(st)
                     /\ session'[s] = Put(session[s], "oauth_state", st)
          /\ (last'.sid = s /\ last'.route = "auth_callback" /\ last'.resp.to = "dashboard")
               => last'.req.state = Get(session[s], "oauth_state")
          /\ (last'.sid = s /\ last'.route = "auth_callback"
                /\ Truthy(last'.req.code) /\ ~Truthy(last'.req.error)
                /\ last'.req.state /= Get(session[s], "oauth_state"))
               => /\ StateMismatch(last'.resp)
                  /\ last'.calls = <<>>
                  /\ session'[s] = session[s]]_vars

\* a callback with a state other than the pending one was rejected; no Token
C24_Witness ==
    /\ last.route = "auth_callback"
    /\ StateMismatch(last.resp)
    /\ last.req.state \in StateValues
    /\ Get(session[last.sid], "oauth_state") \in StateValues \ {last.req.state}
    /\ ~HasKey(session[last.sid], "access_token")

\* the routes that ask the upstream to reboot or resync a device
DeviceActionRoutes == {"reboot_device", "resync_device", "reboot_device_api", "resync_device_api"}

(***************************************************************************)
(* C25 as stated: a reboot or resync handler answers success = True only   *)
(* when its upstream POST was answered with HTTP 200, that is when the API *)
(* client returned a result and not None.                                  *)
(***************************************************************************)
C25_SuccessOnlyOn200 ==
    (last.route \in DeviceActionRoutes
       /\ last.resp.kind = "json"
       /\ Get(last.resp.data.d, "success") = BoolV(TRUE))
        => /\ Len(last.net) = 1
           /\ last.net[1].req.method = "POST"
           /\ last.net[1].resp.kind = "http"
           /\ last.net[1].resp.status = 200
           /\ last.calls[1].out.tag = "ret"
           /\ last.calls[1].out.val /= None

(***************************************************************************)
(* C26: whatever the session held before (nothing, a pending state, the    *)
(* state of a failed callback, a Token), an /authenticate that starts a    *)
(* login stores the state it issues; that state stays stored until the     *)
(* session's next /authenticate, /logout or successful callback; and an    *)
(* /auth/callback that carries the stored state and a code calls the       *)
(* exchange once and, when the exchange returns a Token, leaves the        *)
(* session with that Token as access_token and without oauth_state, the    *)
(* rest of the session as it was, and redirects to the dashboard.          *)
(***************************************************************************)
C26_LoginCompletes ==
    [][\A s \in DOMAIN session :
          LET before == session[s]
              after  == session'[s]
          IN /\ (last'.sid = s /\ last'.route = "authenticate" /\ last'.resp.to /= "index")
                  => \E st \in StateValues :
                        /\ last'.resp.to = AuthorizeUrl(st)
                        /\ Get(after, "oauth_state") = st
             /\ (last'.sid = s
                   /\ last'.route \notin {"authenticate", "logout"}
                   /\ ~(last'.route = "auth_callback" /\ last'.resp.to = "dashboard"))
                  => /\ HasKey(after, "oauth_state") = HasKey(before, "oauth_state")
                     /\ Get(after, "oauth_state") = Get(before, "oauth_state")
             /\ (last'.sid = s /\ last'.route = "auth_callback"
                   /\ Truthy(last'.req.code) /\ ~Truthy(last'.req.error)
                   /\ Truthy(Get(before, "oauth_state"))
                   /\ last'.req.state = Get(before, "oauth_state"))
                  => /\ Len(last'.calls) = 1
                     /\ last'.calls[1].op = "exchange_code_for_token"
                     /\ last'.calls[1].out.tag = "ret"
                          => /\ last'.calls[1].out.val \in Tokens
                             /\ after = Pop(Put(before, "access_token", last'.calls[1].out.val),
                                            "oauth_state")
                             /\ Get(after, "access_token") = last'.calls[1].out.val
                             /\ ~HasKey(after, "oauth_state")
                             /\ is_authenticated(after)
                             /\ last'.resp.to = "dashboard"]_vars

\* a login completed in a session that was authenticated already (only the dashboard of
\* an authenticated session stores an account key, and only /logout removes the Token)
C26_Witness ==
    /\ last.route = "auth_callback"
    /\ last.resp.to = "dashboard"
    /\ Len(last.calls) = 1
    /\ last.calls[1].out.tag = "ret"
    /\ Get(session[last.sid], "access_token") = last.calls[1].out.val
    /\ Get(session[last.sid], "account_key") \in AccountKeys
    /\ ~HasKey(session[last.sid], "oauth_state")

====
